---- MODULE Spec2Model ----
(***************************************************************************)
(* SRv6 static SID table and installation controller of staticd            *)
(* (src/staticd/static_srv6.c).  The state is the list of static SID       *)
(* descriptors, the VRF and interface tables the controller consults and   *)
(* the broker (zebra) connection.  Every handler is one action; the        *)
(* ADD_LOCALSID / DEL_LOCALSID messages a handler submits are recorded in  *)
(* msgs, in the order of submission.                                       *)
(***************************************************************************)
EXTENDS Integers, Sequences, FiniteSets, TLC

VARIABLES
    srv6_sids,  \* struct list *srv6_sids: sequence of static_srv6_sid records
    vrfs,       \* lib VRF table: name -> "absent" | "inactive" | "active"
    ifps,       \* interfaces known in VRF_DEFAULT (set of names)
    connected,  \* the zclient session to the broker is up
    lastEvent,  \* the handler that ran last, with its argument
    msgs,       \* messages submitted to zclient_send_localsid by that handler
    hist        \* per address: [bal |-> #ADD - #DEL, ok |-> strict alternation
                \* so far, late |-> steps taken since it broke]

staticVars == <<srv6_sids, vrfs, ifps, connected, lastEvent, msgs, hist>>

----------------------------------------------------------------------------
(* Bounds and value sets *)

\* steps the history specification still takes after the messages of an
\* address stopped alternating
MaxLate == 1

Addrs == {"fc00::1", "fc00::2"}
NoName == ""
DefaultVrf == "default"
VrfNames == {DefaultVrf, "red"}
DynVrfs == VrfNames \ {DefaultVrf}   \* VRFs with a kernel lifecycle
IfNames == {"lo", "eth0", "eth1"}
SidVrfNames == {NoName} \cup VrfNames
SidIfNames == {NoName, "eth0"}
NULL == "NULL"

\* enum static_srv6_sid_behavior_t
BEHAVIOR_UNSPEC == 0
BEHAVIOR_END == 1
BEHAVIOR_END_X == 2
BEHAVIOR_END_T == 3
BEHAVIOR_END_DT6 == 7
BEHAVIOR_END_DT4 == 8
BEHAVIOR_END_DT46 == 16
BEHAVIOR_UDT4 == 100
BEHAVIOR_UDT6 == 101
BEHAVIOR_UDT46 == 102
BEHAVIOR_UN == 103
BEHAVIOR_UA == 104
\* the declarations an operator enters in this model (spec 8, scenarios 1 and 2):
\* one SID without required attributes, one that needs a VRF
Declarable == {<<"fc00::1", BEHAVIOR_END>>, <<"fc00::2", BEHAVIOR_END_DT4>>}

\* environment data: ifindex of each interface, vrf_id and table id of each VRF
IfIndexOf == [n \in IfNames |-> CASE n = "lo" -> 1 [] n = "eth0" -> 2 [] OTHER -> 3]
VrfIdOf == [n \in VrfNames |-> IF n = DefaultVrf THEN 0 ELSE 7]
TableIdOf == [n \in VrfNames |-> IF n = DefaultVrf THEN 254 ELSE 100]
\* the interface scan of static_zebra_srv6_sid_add: for (i = 0; i < 256; ++i)
IfScanLimit == 256

\* ZEBRA_DEFAULT_SEG6_LOCAL_FLV_LCBLOCK_LEN / _LCNODE_FN_LEN
FLV_LCBLOCK_LEN == 32
FLV_LCNODE_FN_LEN == 16

Min(S) == CHOOSE x \in S : \A y \in S : x <= y

----------------------------------------------------------------------------
(* Collaborator lookups (lib/if.c, lib/vrf.c) over the model's tables *)

\* faulty variant: the lookup finds an interface of every name
if_lookup_by_name_any(name, ifs) == name

if_lookup_by_name(name, ifs) == IF name \in ifs THEN name ELSE NULL

if_lookup_by_index(i, ifs) ==
    IF \E n \in ifs : IfIndexOf[n] = i
    THEN CHOOSE n \in ifs : IfIndexOf[n] = i
    ELSE NULL

vrf_lookup_by_name(name, vr) ==
    IF name \in VrfNames /\ vr[name] # "absent" THEN name ELSE NULL

VrfActive(name, vr) == vr[name] = "active"

----------------------------------------------------------------------------
(* static_srv6.c *)

\* srv6_sid_alloc: XCALLOC zeroes attributes and flags
srv6_sid_alloc(addr, behavior) ==
    [addr |-> addr, behavior |-> behavior, vrf_name |-> NoName,
     ifname |-> NoName, valid |-> FALSE, sent |-> FALSE]

\* faulty variant: the switch keeps the numeric code of every behavior
Seg6LocalActionSame(behavior) == behavior

\* the switch converting static_srv6_sid_behavior_t to seg6local_action_t:
\* every behavior keeps its numeric code but UN -> END and UA -> END_X
Seg6LocalAction(behavior) ==
    CASE behavior = BEHAVIOR_UN -> BEHAVIOR_END
      [] behavior = BEHAVIOR_UA -> BEHAVIOR_END_X
      [] OTHER -> behavior

\* faulty variant: the scan does not skip the loopback interface
FirstInterface(ifs) ==
    LET hits == {i \in {IfIndexOf[n] : n \in ifs} : i < IfScanLimit}
    IN IF hits # {} THEN if_lookup_by_index(Min(hits), ifs)
       ELSE if_lookup_by_index(IfScanLimit - 1, ifs)

\* the ifp left by "for (i = 0; i < 256; ++i) { ifp = if_lookup_by_index(i);
\* if (ifp && !strmatch(ifp->name, "lo")) break; }"
FirstNonLoopback(ifs) ==
    LET hits == {i \in {IfIndexOf[n] : n \in ifs \ {"lo"}} : i < IfScanLimit}
    IN IF hits # {} THEN if_lookup_by_index(Min(hits), ifs)
       ELSE if_lookup_by_index(IfScanLimit - 1, ifs)

NoFlavor == [op |-> "none", lcblock_len |-> 0, lcnode_func_len |-> 0]

AddMsg(sid, oif, table, ok) ==
    [type |-> "ADD", addr |-> sid.addr, oif |-> oif,
     action |-> Seg6LocalAction(sid.behavior), table |-> table,
     flv |-> IF sid.behavior \in {BEHAVIOR_UN, BEHAVIOR_UA}
             THEN [op |-> "NEXT_CSID", lcblock_len |-> FLV_LCBLOCK_LEN,
                   lcnode_func_len |-> FLV_LCNODE_FN_LEN]
             ELSE NoFlavor,
     ok |-> ok]

DelMsg(sid, oif, ok) ==
    [type |-> "DEL", addr |-> sid.addr, oif |-> oif,
     action |-> BEHAVIOR_UNSPEC, table |-> 0, flv |-> NoFlavor, ok |-> ok]

Quiet(sid) == [sid |-> sid, out |-> <<>>]

\* static_zebra_srv6_sid_add: ok is the outcome of zclient_send_localsid
static_zebra_srv6_sid_add(sid, ifs, vr, ok) ==
    LET ifp == if_lookup_by_name(sid.ifname, ifs)
        vrf == vrf_lookup_by_name(sid.vrf_name, vr)
    IN IF sid.ifname # NoName /\ ifp = NULL THEN Quiet(sid)
       ELSE IF sid.vrf_name # NoName /\ (vrf = NULL \/ ~VrfActive(vrf, vr))
       THEN Quiet(sid)
       ELSE
        LET oif1 == IF sid.ifname # NoName THEN IfIndexOf[ifp] ELSE 0
            table == IF sid.vrf_name # NoName THEN TableIdOf[vrf] ELSE 0
            oif2 == IF sid.vrf_name # NoName THEN VrfIdOf[vrf] ELSE oif1
            dflt == FirstNonLoopback(ifs)
        IN IF oif2 = 0 /\ dflt = NULL THEN Quiet(sid)
           ELSE
            LET oif == IF oif2 = 0 THEN IfIndexOf[dflt] ELSE oif2
            IN [sid |-> [sid EXCEPT !.sent = TRUE],
                out |-> <<AddMsg(sid, oif, table, ok)>>]

\* static_zebra_srv6_sid_del
static_zebra_srv6_sid_del(sid, vr, ok) ==
    LET vrf == vrf_lookup_by_name(sid.vrf_name, vr)
    IN IF sid.vrf_name # NoName /\ vrf = NULL THEN Quiet(sid)
       ELSE
        LET oif == IF sid.vrf_name # NoName THEN VrfIdOf[vrf] ELSE 0
        IN [sid |-> [sid EXCEPT !.sent = FALSE],
            out |-> <<DelMsg(sid, oif, ok)>>]

\* faulty variant: the flags are tested one at a time, a VALID SID is sent
\* whether or not it was sent before
static_zebra_srv6_sid_update_level(sid, ifs, vr, ok) ==
    IF sid.valid THEN static_zebra_srv6_sid_add(sid, ifs, vr, ok)
    ELSE IF sid.sent THEN static_zebra_srv6_sid_del(sid, vr, ok)
    ELSE Quiet(sid)

\* static_zebra_srv6_sid_update
static_zebra_srv6_sid_update(sid, ifs, vr, ok) ==
    IF sid.valid /\ ~sid.sent THEN static_zebra_srv6_sid_add(sid, ifs, vr, ok)
    ELSE IF ~sid.valid /\ sid.sent THEN static_zebra_srv6_sid_del(sid, vr, ok)
    ELSE Quiet(sid)

\* mark_srv6_sid_as_valid
mark_srv6_sid_as_valid(sid, is_valid, ifs, vr, ok) ==
    static_zebra_srv6_sid_update([sid EXCEPT !.valid = is_valid], ifs, vr, ok)

\* faulty variant: the walk stops after the first list node
static_srv6_sid_lookup_head(sids, addr) ==
    IF Len(sids) > 0 /\ sids[1].addr = addr THEN 1 ELSE 0

\* static_srv6_sid_lookup: the first descriptor with that address, or NULL (0)
static_srv6_sid_lookup(sids, addr) ==
    IF \E i \in 1..Len(sids) : sids[i].addr = addr
    THEN Min({i \in 1..Len(sids) : sids[i].addr = addr})
    ELSE 0

----------------------------------------------------------------------------
(* Iteration over the list: ALL_LIST_ELEMENTS_RO(srv6_sids, node, sid) *)

RECURSIVE ConcatOut(_, _)
ConcatOut(rs, i) == IF i > Len(rs) THEN <<>> ELSE rs[i].out \o ConcatOut(rs, i + 1)

\* rs[i] is the result of the loop body on element i
ForEach(rs) == [sids |-> [i \in 1..Len(rs) |-> rs[i].sid], out |-> ConcatOut(rs, 1)]

\* faulty variant: "if (strcmp(sid->attributes.vrf_name, vrf->name))"
static_fixup_vrf_srv6_sids_strcmp(sids, vrf_name, ifs, vr, ok) ==
    ForEach([i \in 1..Len(sids) |->
        IF sids[i].vrf_name # vrf_name
        THEN static_zebra_srv6_sid_update(sids[i], ifs, vr, ok)
        ELSE Quiet(sids[i])])

\* static_fixup_vrf_srv6_sids(enable_svrf): ok is the outcome of its sends
static_fixup_vrf_srv6_sids(sids, vrf_name, ifs, vr, ok) ==
    ForEach([i \in 1..Len(sids) |->
        IF sids[i].vrf_name = vrf_name
        THEN static_zebra_srv6_sid_update(sids[i], ifs, vr, ok)
        ELSE Quiet(sids[i])])

\* faulty variant: the loop body calls static_zebra_srv6_sid_update, which
\* leaves a VALID and SENT SID alone
static_cleanup_vrf_srv6_sids_update(sids, vrf_name, vr, ok) ==
    ForEach([i \in 1..Len(sids) |->
        IF sids[i].vrf_name = vrf_name
        THEN static_zebra_srv6_sid_update(sids[i], {}, vr, ok)
        ELSE Quiet(sids[i])])

\* static_cleanup_vrf_srv6_sids(disable_svrf)
static_cleanup_vrf_srv6_sids(sids, vrf_name, vr, ok) ==
    ForEach([i \in 1..Len(sids) |->
        IF sids[i].vrf_name = vrf_name
        THEN static_zebra_srv6_sid_del(sids[i], vr, ok)
        ELSE Quiet(sids[i])])

\* static_srv6_sid_add: listnode_add, then static_zebra_srv6_sid_update
static_srv6_sid_add(sids, sid, ifs, vr, ok) ==
    LET r == static_zebra_srv6_sid_update(sid, ifs, vr, ok)
    IN [sids |-> Append(sids, r.sid), out |-> r.out]

\* static_srv6_sid_del: withdraw the SID if it was sent, then free it
static_srv6_sid_del(sid, vr, ok) ==
    IF sid.sent THEN static_zebra_srv6_sid_del(sid, vr, ok) ELSE Quiet(sid)

\* the SID loop of static_ifp_up
IfpUpSids(sids, ifs, vr, ok) ==
    ForEach([i \in 1..Len(sids) |->
        static_zebra_srv6_sid_update(sids[i], ifs, vr, ok)])

----------------------------------------------------------------------------
(* History of the messages submitted per address *)

RecordMsg(h, m) ==
    [h EXCEPT ![m.addr] =
        IF m.type = "ADD"
        THEN [@ EXCEPT !.bal = @ + 1, !.ok = @ /\ h[m.addr].bal = 0]
        ELSE [@ EXCEPT !.bal = @ - 1, !.ok = @ /\ h[m.addr].bal = 1]]

RECURSIVE Record(_, _)
Record(h, out) == IF out = <<>> THEN h ELSE Record(RecordMsg(h, Head(out)), Tail(out))

\* a step taken after the alternation of an address broke ages its history
Late(h) == [a \in Addrs |-> IF h[a].ok THEN h[a] ELSE [h[a] EXCEPT !.late = @ + 1]]

\* track = TRUE: the step records its messages in hist, until MaxLate steps
\* after a break
Hist(track) ==
    IF track
    THEN /\ \A a \in Addrs : hist[a].late < MaxLate
         /\ hist' = Record(Late(hist), msgs')
    ELSE UNCHANGED hist

\* outcome of zclient_send_localsid: the write fails iff the session is down
SendOk(conn) == conn

Event(type, arg) == [type |-> type, arg |-> arg]

----------------------------------------------------------------------------
(* Initial state: static_srv6_init, no broker session, only the default VRF *)

StaticInit ==
    /\ srv6_sids = <<>>
    /\ vrfs = [n \in VrfNames |-> IF n = DefaultVrf THEN "active" ELSE "absent"]
    /\ ifps = {}
    /\ connected = FALSE
    /\ lastEvent = Event("init", NoName)
    /\ msgs = <<>>
    /\ hist = [a \in Addrs |-> [bal |-> 0, ok |-> TRUE, late |-> 0]]

----------------------------------------------------------------------------
(* Configuration surface (spec 4.3, 6): sid_declare, sid_set_attribute,    *)
(* sid_clear.  The CLI layer calling into static_srv6.c is not part of the *)
(* sources; it is modelled from the specification.                         *)

\* spec 3: behaviors that look up a table need a VRF attribute
NeedsVrf(behavior) ==
    behavior \in {BEHAVIOR_END_T, BEHAVIOR_END_DT4, BEHAVIOR_END_DT6,
                  BEHAVIOR_END_DT46, BEHAVIOR_UDT4, BEHAVIOR_UDT6, BEHAVIOR_UDT46}

RequiredAttrsPresent(sid) == NeedsVrf(sid.behavior) => sid.vrf_name # NoName

\* sid_add(address, behavior): a duplicate address returns the existing descriptor
SidDeclare(addr, behavior, track) ==
    LET ok == SendOk(connected)
        fresh == srv6_sid_alloc(addr, behavior)
        new == [fresh EXCEPT !.valid = RequiredAttrsPresent(fresh)]
        r == IF static_srv6_sid_lookup(srv6_sids, addr) # 0
             THEN [sids |-> srv6_sids, out |-> <<>>]
             ELSE static_srv6_sid_add(srv6_sids, new, ifps, vrfs, ok)
    IN /\ srv6_sids' = r.sids
       /\ msgs' = r.out
       /\ lastEvent' = Event("sid_declare", addr)
       /\ UNCHANGED <<vrfs, ifps, connected>>
       /\ Hist(track)

\* sid_attribute_set: withdraw, set the attribute, re-evaluate validity
SidSetAttribute(addr, attr, value, track) ==
    LET ok == SendOk(connected)
        i == static_srv6_sid_lookup(srv6_sids, addr)
        r1 == mark_srv6_sid_as_valid(srv6_sids[i], FALSE, ifps, vrfs, ok)
        s2 == IF attr = "vrf_name" THEN [r1.sid EXCEPT !.vrf_name = value]
              ELSE [r1.sid EXCEPT !.ifname = value]
        r2 == mark_srv6_sid_as_valid(s2, RequiredAttrsPresent(s2), ifps, vrfs, ok)
    IN /\ i # 0
       /\ srv6_sids' = [srv6_sids EXCEPT ![i] = r2.sid]
       /\ msgs' = r1.out \o r2.out
       /\ lastEvent' = Event("sid_set_attribute", addr)
       /\ UNCHANGED <<vrfs, ifps, connected>>
       /\ Hist(track)

\* sid_clear: listnode_delete(srv6_sids, sid); static_srv6_sid_del(sid)
SidDelete(addr, track) ==
    LET ok == SendOk(connected)
        i == static_srv6_sid_lookup(srv6_sids, addr)
        r == static_srv6_sid_del(srv6_sids[i], vrfs, ok)
    IN /\ i # 0
       /\ srv6_sids' = [j \in 1..(Len(srv6_sids) - 1) |->
                            IF j < i THEN srv6_sids[j] ELSE srv6_sids[j + 1]]
       /\ msgs' = r.out
       /\ lastEvent' = Event("sid_delete", addr)
       /\ UNCHANGED <<vrfs, ifps, connected>>
       /\ Hist(track)

----------------------------------------------------------------------------
(* Broker notifications: interface lifecycle (if_zapi_callbacks) *)

\* static_ifp_create: the interface is in the table when the callback runs;
\* static_ifindex_update only touches static route nexthops
IfCreate(n, track) ==
    /\ n \notin ifps
    /\ ifps' = ifps \cup {n}
    /\ msgs' = <<>>
    /\ lastEvent' = Event("ifp_create", n)
    /\ UNCHANGED <<srv6_sids, vrfs, connected>>
    /\ Hist(track)

\* static_ifp_destroy
IfDestroy(n, track) ==
    /\ n \in ifps
    /\ ifps' = ifps \ {n}
    /\ msgs' = <<>>
    /\ lastEvent' = Event("ifp_destroy", n)
    /\ UNCHANGED <<srv6_sids, vrfs, connected>>
    /\ Hist(track)

\* static_ifp_up: static_zebra_srv6_sid_update on every SID of the list
IfUp(n, track) ==
    LET r == IfpUpSids(srv6_sids, ifps, vrfs, SendOk(connected))
    IN /\ n \in ifps
       /\ srv6_sids' = r.sids
       /\ msgs' = r.out
       /\ lastEvent' = Event("ifp_up", n)
       /\ UNCHANGED <<vrfs, ifps, connected>>
       /\ Hist(track)

\* static_ifp_down: static_ifindex_update(ifp, false) and nothing else
IfDown(n, track) ==
    /\ n \in ifps
    /\ msgs' = <<>>
    /\ lastEvent' = Event("ifp_down", n)
    /\ UNCHANGED <<srv6_sids, vrfs, ifps, connected>>
    /\ Hist(track)

----------------------------------------------------------------------------
(* Broker notifications: VRF lifecycle.  lib/vrf.c sets or clears          *)
(* VRF_ACTIVE and then runs staticd's enable / disable hook, which calls   *)
(* static_fixup_vrf_srv6_sids / static_cleanup_vrf_srv6_sids.              *)

VrfCreate(v, track) ==
    /\ vrfs[v] = "absent"
    /\ vrfs' = [vrfs EXCEPT ![v] = "inactive"]
    /\ msgs' = <<>>
    /\ lastEvent' = Event("vrf_create", v)
    /\ UNCHANGED <<srv6_sids, ifps, connected>>
    /\ Hist(track)

VrfEnable(v, track) ==
    LET vr == [vrfs EXCEPT ![v] = "active"]
        r == static_fixup_vrf_srv6_sids(srv6_sids, v, ifps, vr, SendOk(connected))
    IN /\ vrfs[v] = "inactive"
       /\ vrfs' = vr
       /\ srv6_sids' = r.sids
       /\ msgs' = r.out
       /\ lastEvent' = Event("vrf_enable", v)
       /\ UNCHANGED <<ifps, connected>>
       /\ Hist(track)

VrfDisable(v, track) ==
    LET vr == [vrfs EXCEPT ![v] = "inactive"]
        r == static_cleanup_vrf_srv6_sids(srv6_sids, v, vr, SendOk(connected))
    IN /\ vrfs[v] = "active"
       /\ vrfs' = vr
       /\ srv6_sids' = r.sids
       /\ msgs' = r.out
       /\ lastEvent' = Event("vrf_disable", v)
       /\ UNCHANGED <<ifps, connected>>
       /\ Hist(track)

VrfDelete(v, track) ==
    /\ vrfs[v] = "inactive"
    /\ vrfs' = [vrfs EXCEPT ![v] = "absent"]
    /\ msgs' = <<>>
    /\ lastEvent' = Event("vrf_delete", v)
    /\ UNCHANGED <<srv6_sids, ifps, connected>>
    /\ Hist(track)

----------------------------------------------------------------------------
(* Broker session *)

\* zebra_connected: static_fixup_vrf_srv6_sids(vrf_info_lookup(VRF_DEFAULT))
ZebraConnected(track) ==
    LET r == static_fixup_vrf_srv6_sids(srv6_sids, DefaultVrf, ifps, vrfs, SendOk(TRUE))
    IN /\ ~connected
       /\ connected' = TRUE
       /\ srv6_sids' = r.sids
       /\ msgs' = r.out
       /\ lastEvent' = Event("zebra_connected", NoName)
       /\ UNCHANGED <<vrfs, ifps>>
       /\ Hist(track)

\* the session drops: staticd registers no handler for it
ZebraDisconnected(track) ==
    /\ connected
    /\ connected' = FALSE
    /\ msgs' = <<>>
    /\ lastEvent' = Event("zebra_disconnected", NoName)
    /\ UNCHANGED <<srv6_sids, vrfs, ifps>>
    /\ Hist(track)

----------------------------------------------------------------------------
(* The handlers of staticd *)

Step(track) ==
    \/ \E d \in Declarable : SidDeclare(d[1], d[2], track)
    \/ \E a \in Addrs, v \in SidVrfNames : SidSetAttribute(a, "vrf_name", v, track)
    \/ \E a \in Addrs, n \in SidIfNames : SidSetAttribute(a, "ifname", n, track)
    \/ \E a \in Addrs : SidDelete(a, track)
    \/ \E n \in IfNames : IfCreate(n, track)
    \/ \E n \in IfNames : IfDestroy(n, track)
    \/ \E n \in IfNames : IfUp(n, track)
    \/ \E n \in IfNames : IfDown(n, track)
    \/ \E v \in DynVrfs : VrfCreate(v, track)
    \/ \E v \in DynVrfs : VrfEnable(v, track)
    \/ \E v \in DynVrfs : VrfDisable(v, track)
    \/ \E v \in DynVrfs : VrfDelete(v, track)
    \/ ZebraConnected(track)
    \/ ZebraDisconnected(track)

----------------------------------------------------------------------------
(* isisd: SRv6 SID allocation and End.X SID management of one IS-IS area   *)
(* (src/isisd/isis_srv6.c)                                                 *)

VARIABLES
    srv6db,      \* area->srv6db: locator name, chunk list, SID list, End.X list
    adjacencies, \* the adjacencies of the area's circuits
    isisEvent,   \* the isisd handler that ran last, with its argument
    isisLog      \* what that handler asked of zebra and freed, in order

isisVars == <<srv6db, adjacencies, isisEvent, isisLog>>

\* SIDs the area's SID list holds before no further one is allocated
MaxSids == 2

Adjs == {"adj1", "adj2"}
CircTypes == {"CIRCUIT_T_P2P", "CIRCUIT_T_BROADCAST"}
LocatorName == "L1"

\* struct in6_addr as s6_addr[0..15], from its eight 16-bit groups
In6(groups) ==
    [i \in 1..16 |-> IF i % 2 = 1 THEN groups[(i + 1) \div 2] \div 256
                     ELSE groups[i \div 2] % 256]

\* 2001:db8::
LocatorAddr == In6(<<8193, 3512, 0, 0, 0, 0, 0, 0>>)
\* fe80::1, fe80::2: link-local addresses of the neighbors
LinkLocal == [a \in Adjs |-> In6(<<65152, 0, 0, 0, 0, 0, 0,
                                   IF a = "adj1" THEN 1 ELSE 2>>)]

\* "index >> n" for the uint32_t index; indexes of the model are below 2^31.
\* A shift by 32 or more is undefined: wide is what the build makes of it,
\* "zero" (the bits shifted in are 0) or "masked" (the count is taken modulo 32)
ShiftRight(index, n, wide) ==
    LET count == IF n >= 32 /\ wide = "masked" THEN n % 32 ELSE n
    IN IF count < 31 THEN index \div (2 ^ count) ELSE 0

\* one iteration of the loop of transpose_sid: clear bit offset + idx of sid,
\* then set it if bit (len - 1 - idx) of index is set.  tidx is a uint8_t; a
\* write past s6_addr[15] lands outside sid and leaves it as it is.
transpose_bit(sid, index, offset, len, idx, wide) ==
    LET tidx == (offset + idx) % 256
        w == 2 ^ (7 - (tidx % 8))
        old == sid[(tidx \div 8) + 1]
        cleared == old - ((old \div w) % 2) * w
        bit == ShiftRight(index, len - 1 - idx, wide) % 2
    IN IF (tidx \div 8) < 16
       THEN [sid EXCEPT ![(tidx \div 8) + 1] = cleared + (bit * w)]
       ELSE sid

\* the iterations lo .. hi - 1 of "for (uint8_t idx = 0; idx < len; idx++)",
\* in this order, sixteen at a time: the first sixteen have produced their
\* 16 bytes when the next ones start
RECURSIVE transpose_from(_, _, _, _, _, _, _)
transpose_from(sid, index, offset, len, lo, hi, wide) ==
    IF lo >= hi THEN sid
    ELSE IF hi - lo <= 16
    THEN transpose_from(transpose_bit(sid, index, offset, len, lo, wide),
                        index, offset, len, lo + 1, hi, wide)
    ELSE LET lower == transpose_from(sid, index, offset, len, lo, lo + 16, wide)
         IN IF Len(lower) = 16
            THEN transpose_from(lower, index, offset, len, lo + 16, hi, wide)
            ELSE lower

\* transpose_sid writing the index behind the function bits
transpose_sid_past(sid, index, offset, len) ==
    transpose_from(sid, index, offset + len, len, 0, len, "zero")

\* transpose_sid writing the index into the leading bits of the address
transpose_sid_head(sid, index, offset, len) ==
    transpose_from(sid, index, 0, len, 0, len, "zero")

\* transpose_sid for len <= 32, where no shift reaches the width of index
transpose_sid(sid, index, offset, len) ==
    transpose_from(sid, index, offset, len, 0, len, "zero")

\* transpose_sid in a build that treats the wide shifts this way
transpose_sid_wide(sid, index, offset, len, wide) ==
    IF len <= 32 THEN transpose_sid(sid, index, offset, len)
    ELSE transpose_from(sid, index, offset, len, 0, len, wide)

\* sid_exist.  The second loop walks srv6_endx_sids, whose nodes are struct
\* srv6_adjacency, as struct isis_srv6_sid: what it compares is not the SID of
\* the End.X entry (sra->sid->value) but the bytes of the srv6_adjacency that
\* lie where isis_srv6_sid keeps value (field as_sid_value of the model).
sid_exist(db, sid) ==
    \/ \E k \in 1..Len(db.srv6_sids) : db.srv6_sids[k].value = sid
    \/ \E k \in 1..Len(db.srv6_endx_sids) : db.srv6_endx_sids[k].as_sid_value = sid

\* the auto-mode loop "for (uint32_t i = 1; i < index_max; i++)", from i on:
\* alloced and sid->value when it ends, value being what sid->value holds
\* when it starts
RECURSIVE auto_index(_, _, _, _, _, _, _)
auto_index(db, value, offset, func_len, i, index_max, wide) ==
    IF i >= index_max THEN [alloced |-> FALSE, value |-> value]
    ELSE LET sid == transpose_sid_wide(value, i, offset, func_len, wide)
         IN IF sid_exist(db, sid)
            THEN auto_index(db, sid, offset, func_len, i + 1, index_max, wide)
            ELSE [alloced |-> TRUE, value |-> sid]

\* the NULL that isis_srv6_sid_alloc returns
NoSid == [null |-> TRUE]

\* the int "1 << count" as two 16-bit halves, the low one first.  A count of
\* 32 or more is beyond the width of int: the build either shifts by the
\* count modulo 32 ("masked") or shifts everything out ("zero")
ShiftLeftOne(count, wide) ==
    LET c == IF count >= 32 /\ wide = "masked" THEN count % 32 ELSE count
    IN IF c < 16 THEN <<2 ^ c, 0>>
       ELSE IF c < 32 THEN <<0, 2 ^ (c - 16)>>
       ELSE <<0, 0>>

\* "index_max = (1 << function_bits_length) - 1": the uint32_t that results,
\* as two 16-bit halves, the low one first
index_max32(function_bits_length, wide) ==
    LET one == ShiftLeftOne(function_bits_length, wide)
    IN IF one[1] > 0 THEN <<one[1] - 1, one[2]>>
       ELSE IF one[2] > 0 THEN <<65535, one[2] - 1>>
       ELSE <<65535, 65535>>

\* the bound the loop counter i is compared with; no loop of the model runs
\* beyond 2^31 - 1 iterations
IndexBound(halves) ==
    IF halves[2] >= 32768 THEN 2147483647 ELSE (halves[2] * 65536) + halves[1]

\* isis_srv6_sid_alloc, in a build that treats the wide shifts this way: the
\* SID, or NULL.  In index mode nothing sets alloced, so the
\* "if (!alloced) return NULL" that follows always returns NULL.
isis_srv6_sid_alloc_wide(db, index, chunk, behavior, wide) ==
    LET offset == (chunk.block_bits_length + chunk.node_bits_length) % 256
        func_len == chunk.function_bits_length
        index_max == IndexBound(index_max32(func_len, wide))
        auto == auto_index(db, chunk.prefix.addr, offset, func_len, 1, index_max,
                           wide)
        alloced == IF index # 0 THEN FALSE ELSE auto.alloced
    IN IF index # 0
          /\ sid_exist(db, transpose_sid_wide(chunk.prefix.addr, index, offset,
                                              func_len, wide))
       THEN NoSid
       ELSE IF ~alloced THEN NoSid
       ELSE [value |-> auto.value,
             behavior |-> behavior,
             locator |-> chunk.id,
             structure |-> [loc_block_len |-> chunk.block_bits_length,
                            loc_node_len |-> chunk.node_bits_length,
                            func_len |-> chunk.function_bits_length,
                            arg_len |-> chunk.argument_bits_length]]

\* isis_srv6_sid_alloc for a function length below 32, where no shift
\* reaches the width of int
isis_srv6_sid_alloc(db, index, chunk, behavior) ==
    isis_srv6_sid_alloc_wide(db, index, chunk, behavior, "zero")

\* removal of the list node holding sra (listnode_delete: by pointer)
ListDelete(list, id) == SelectSeq(list, LAMBDA e : e.id # id)

IsisReq(type, value) == [type |-> type, value |-> value]

\* pointers of live srv6_adjacency objects; XCALLOC hands out an unused one
LiveSra(db) == {db.srv6_endx_sids[k].id : k \in 1..Len(db.srv6_endx_sids)}
NewSra(db) == Min((1..(Len(db.srv6_endx_sids) + 1)) \ LiveSra(db))

\* srv6_endx_sid_add_single for a primary SID (backup = false); as_value is
\* what the new srv6_adjacency holds where isis_srv6_sid keeps value
srv6_endx_sid_add_single(db, adjs, adj, as_value) ==
    LET chunk == Head(db.srv6_locator_chunks)
        sid == isis_srv6_sid_alloc(db, 0, chunk, "END_X")
        sra == [id |-> NewSra(db),
                type |-> "ISIS_SRV6_ADJ_NORMAL",
                sid |-> sid,
                nexthop |-> LinkLocal[adj],
                adj |-> adj,
                subtlv |-> IF adjs[adj].circ_type = "CIRCUIT_T_BROADCAST"
                           THEN "lan_endx_sid" ELSE "endx_sid",
                as_sid_value |-> as_value]
    IN IF db.srv6_locator_chunks = <<>> THEN [db |-> db, adjs |-> adjs, log |-> <<>>]
       ELSE IF ~adjs[adj].ipv6_router \/ adjs[adj].ll_ipv6_count = 0
       THEN [db |-> db, adjs |-> adjs, log |-> <<>>]
       ELSE IF sid = NoSid THEN [db |-> db, adjs |-> adjs, log |-> <<>>]
       ELSE [db |-> [db EXCEPT !.srv6_endx_sids = Append(@, sra)],
             adjs |-> [adjs EXCEPT ![adj].srv6_endx_sids = Append(@, sra)],
             log |-> <<IsisReq("endx_sid_install", sid.value)>>]

\* srv6_endx_sid_add adding a primary and then a second End.X SID
srv6_endx_sid_add_both(db, adjs, adj, as_value) ==
    LET r == srv6_endx_sid_add_single(db, adjs, adj, as_value)
        q == srv6_endx_sid_add_single(r.db, r.adjs, adj, as_value)
    IN [db |-> q.db, adjs |-> q.adjs, log |-> r.log \o q.log]

\* srv6_endx_sid_add
srv6_endx_sid_add(db, adjs, adj, as_value) ==
    srv6_endx_sid_add_single(db, adjs, adj, as_value)

\* srv6_endx_sid_del without the listnode_delete on the adjacency's list
srv6_endx_sid_del_area(st, sra) ==
    [db |-> [st.db EXCEPT !.srv6_endx_sids = ListDelete(@, sra.id)],
     adjs |-> st.adjs,
     log |-> st.log \o <<IsisReq("endx_sid_uninstall", sra.sid.value),
                         IsisReq("free_sra", sra.sid.value)>>]

\* srv6_endx_sid_del on state st = [db, adjs, log]
srv6_endx_sid_del(st, sra) ==
    [db |-> [st.db EXCEPT !.srv6_endx_sids = ListDelete(@, sra.id)],
     adjs |-> [st.adjs EXCEPT ![sra.adj].srv6_endx_sids = ListDelete(@, sra.id)],
     log |-> st.log \o <<IsisReq("endx_sid_uninstall", sra.sid.value),
                         IsisReq("free_sra", sra.sid.value)>>]

\* for (ALL_LIST_ELEMENTS(list, node, nnode, sra)) srv6_endx_sid_del(sra)
RECURSIVE DelAll(_, _)
DelAll(st, list) ==
    IF list = <<>> THEN st ELSE DelAll(srv6_endx_sid_del(st, Head(list)), Tail(list))

\* srv6_adj_state_change: the loop runs over adj->adj_sids, the list of the
\* adjacency's SR-MPLS Adj-SIDs, and not over adj->srv6_endx_sids
srv6_adj_state_change(db, adjs, adj) ==
    LET st == [db |-> db, adjs |-> adjs, log |-> <<>>]
    IN IF ~db.enabled THEN st
       ELSE IF adjs[adj].adj_state = "ISIS_ADJ_UP" THEN st
       ELSE DelAll(st, adjs[adj].adj_sids)

\* srv6_adj_ip_enabled without the test of area->srv6db.enabled
srv6_adj_ip_enabled_any(db, adjs, adj, family, global, as_value) ==
    IF global \/ family # "AF_INET6"
    THEN [db |-> db, adjs |-> adjs, log |-> <<>>]
    ELSE srv6_endx_sid_add(db, adjs, adj, as_value)

\* srv6_adj_ip_enabled
srv6_adj_ip_enabled(db, adjs, adj, family, global, as_value) ==
    IF ~db.enabled \/ global \/ family # "AF_INET6"
    THEN [db |-> db, adjs |-> adjs, log |-> <<>>]
    ELSE srv6_endx_sid_add(db, adjs, adj, as_value)

\* srv6_adj_ip_disabled with the loop of srv6_adj_state_change
srv6_adj_ip_disabled_adj_sids(db, adjs, adj, family, global) ==
    LET st == [db |-> db, adjs |-> adjs, log |-> <<>>]
    IN IF ~db.enabled \/ global \/ family # "AF_INET6" THEN st
       ELSE DelAll(st, adjs[adj].adj_sids)

\* srv6_adj_ip_disabled
srv6_adj_ip_disabled(db, adjs, adj, family, global) ==
    LET st == [db |-> db, adjs |-> adjs, log |-> <<>>]
    IN IF ~db.enabled \/ global \/ family # "AF_INET6" THEN st
       ELSE DelAll(st, adjs[adj].srv6_endx_sids)

\* the "Delete chunks" loop of isis_srv6_locator_unset
FreeChunks(chunks) ==
    [k \in 1..Len(chunks) |-> IsisReq("chunk_free", chunks[k].prefix.addr)]

\* the "Delete SRv6 SIDs" loop of isis_srv6_locator_unset
FreeSids(sids) ==
    [k \in 1..(2 * Len(sids)) |->
        IF k % 2 = 1 THEN IsisReq("end_sid_uninstall", sids[(k + 1) \div 2].value)
        ELSE IsisReq("free_sid", sids[k \div 2].value)]

\* isis_srv6_locator_unset that goes on after a failed release
isis_srv6_locator_unset_unchecked(db, adjs, ret) ==
    LET released == [db |-> [db EXCEPT !.srv6_locator_chunks = <<>>,
                                       !.srv6_sids = <<>>],
                     adjs |-> adjs,
                     log |-> <<IsisReq("release_locator_chunk",
                                       db.srv6_locator_name)>>
                             \o FreeChunks(db.srv6_locator_chunks)
                             \o FreeSids(db.srv6_sids)]
        torn == DelAll(released, db.srv6_endx_sids)
    IN IF db.srv6_locator_name = NoName
       THEN [db |-> db, adjs |-> adjs, log |-> <<>>, ret |-> -1]
       ELSE [db |-> [torn.db EXCEPT !.srv6_locator_name = NoName],
             adjs |-> torn.adjs, log |-> torn.log,
             ret |-> IF ret < 0 THEN -1 ELSE 0]

\* isis_srv6_locator_unset; ret is what
\* isis_zebra_srv6_manager_release_locator_chunk returned
isis_srv6_locator_unset(db, adjs, ret) ==
    LET released == [db |-> [db EXCEPT !.srv6_locator_chunks = <<>>,
                                       !.srv6_sids = <<>>],
                     adjs |-> adjs,
                     log |-> <<IsisReq("release_locator_chunk",
                                       db.srv6_locator_name)>>
                             \o FreeChunks(db.srv6_locator_chunks)
                             \o FreeSids(db.srv6_sids)]
        torn == DelAll(released, db.srv6_endx_sids)
    IN IF db.srv6_locator_name = NoName \/ ret < 0
       THEN [db |-> db, adjs |-> adjs, log |-> <<>>, ret |-> -1]
       ELSE [db |-> [torn.db EXCEPT !.srv6_locator_name = NoName],
             adjs |-> torn.adjs, log |-> torn.log, ret |-> 0]

----------------------------------------------------------------------------
(* zebra: the "prefix" command of the SRv6 locator node                    *)
(* (src/zebra/zebra_srv6_vty.c)                                            *)

VARIABLES
    locator,        \* the struct srv6_locator of the VTY context
    zebra_locators, \* names of the locators zebra_srv6_locator_add registered
    zebraCmd        \* the last prefix command: its arguments and its result

zebraVars == <<locator, zebra_locators, zebraCmd>>

In6Zero == In6(<<0, 0, 0, 0, 0, 0, 0, 0>>)

\* assignment of a long to a uint8_t field
U8(x) == ((x % 256) + 256) % 256

\* the value DEFPY gives an option that was left out
Omitted == 0

\* locator_prefix: prefix = [addr, prefixlen]; the three lengths are Omitted
\* or in 16..64
locator_prefix(loc, prefix, func_bit_len, block_bit_len, node_bit_len) ==
    LET l1 == [loc EXCEPT !.prefix = prefix]
        block == IF block_bit_len = 0 /\ node_bit_len = 0 THEN prefix.prefixlen - 24
                 ELSE IF block_bit_len = 0 THEN prefix.prefixlen - node_bit_len
                 ELSE block_bit_len
        nodel == IF block_bit_len = 0 /\ node_bit_len = 0 THEN 24
                 ELSE IF block_bit_len # 0 /\ node_bit_len = 0
                      THEN prefix.prefixlen - block_bit_len
                 ELSE node_bit_len
        chunks == IF l1.chunks = <<>> THEN <<[prefix |-> prefix, proto |-> 0]>>
                  ELSE [k \in 1..Len(l1.chunks) |->
                            IF l1.chunks[k].prefix.addr = In6Zero
                            THEN [l1.chunks[k] EXCEPT !.prefix = prefix]
                            ELSE l1.chunks[k]]
    IN IF block_bit_len # 0 /\ node_bit_len # 0
          /\ block_bit_len + node_bit_len # prefix.prefixlen
       THEN [ret |-> "CMD_WARNING_CONFIG_FAILED", locator |-> l1, added |-> FALSE]
       ELSE [ret |-> "CMD_SUCCESS",
             locator |-> [l1 EXCEPT !.block_bits_length = U8(block),
                                    !.node_bits_length = U8(nodel),
                                    !.function_bits_length = U8(func_bit_len),
                                    !.argument_bits_length = 0,
                                    !.chunks = chunks],
             added |-> TRUE]

\* a locator as "locator NAME" creates it
NewLocator ==
    [name |-> LocatorName, prefix |-> [addr |-> In6Zero, prefixlen |-> 0],
     block_bits_length |-> 0, node_bits_length |-> 0,
     function_bits_length |-> 0, argument_bits_length |-> 0, chunks |-> <<>>]

\* arguments of the prefix command
PrefixAddrs == {LocatorAddr, In6(<<8193, 3512, 1, 0, 0, 0, 0, 0>>)}
PrefixLens == {48, 120}
FuncBits == {Omitted, 16}
BlockLens == {Omitted, 32, 64}
NodeLens == {Omitted, 16}

ZebraInit ==
    /\ locator = NewLocator
    /\ zebra_locators = {}
    /\ zebraCmd = [prefix |-> [addr |-> In6Zero, prefixlen |-> 0],
                   func_bit_len |-> 0, block_bit_len |-> 0, node_bit_len |-> 0,
                   ret |-> "none"]

LocatorPrefix(prefix, func_bit_len, block_bit_len, node_bit_len) ==
    LET r == locator_prefix(locator, prefix, func_bit_len, block_bit_len,
                            node_bit_len)
    IN /\ locator' = r.locator
       /\ zebra_locators' = IF r.added THEN zebra_locators \cup {locator.name}
                            ELSE zebra_locators
       /\ zebraCmd' = [prefix |-> prefix, func_bit_len |-> func_bit_len,
                       block_bit_len |-> block_bit_len,
                       node_bit_len |-> node_bit_len, ret |-> r.ret]

ZebraStep ==
    \E a \in PrefixAddrs, m \in PrefixLens, f \in FuncBits, b \in BlockLens,
       n \in NodeLens :
        LocatorPrefix([addr |-> a, prefixlen |-> m], f, b, n)

----------------------------------------------------------------------------
(* isisd: state and handlers *)

\* the chunk isisd gets for a locator that zebra configured with this command
ChunkOf(id, prefix, func_bit_len, block_bit_len, node_bit_len) ==
    LET l == locator_prefix(NewLocator, prefix, func_bit_len, block_bit_len,
                            node_bit_len).locator
    IN [id |-> id, prefix |-> l.prefix,
        block_bits_length |-> l.block_bits_length,
        node_bits_length |-> l.node_bits_length,
        function_bits_length |-> l.function_bits_length,
        argument_bits_length |-> l.argument_bits_length]

\* prefix 2001:db8::/48 func-bits 16 block-len 32 node-len 16 (spec 8, scenario 4);
\* prefix 2001:db8::/64 func-bits 16 (block 40, node 24);
\* prefix 2001:db8::/48 func-bits 16 block-len 64 (node 48 - 64 as uint8_t);
\* prefix 2001:db8::/48 without func-bits
IsisChunks ==
    {ChunkOf("c1", [addr |-> LocatorAddr, prefixlen |-> 48], 16, 32, 16),
     ChunkOf("c2", [addr |-> LocatorAddr, prefixlen |-> 64], 16, Omitted, Omitted),
     ChunkOf("c3", [addr |-> LocatorAddr, prefixlen |-> 48], 16, 64, Omitted),
     ChunkOf("c4", [addr |-> LocatorAddr, prefixlen |-> 48], Omitted, Omitted, Omitted)}

AdjStates == {"ISIS_ADJ_INITIALIZING", "ISIS_ADJ_UP", "ISIS_ADJ_DOWN"}
Families == {"AF_INET", "AF_INET6"}

IsisEvent(type, arg) == [type |-> type, arg |-> arg]

\* isis_srv6_area_init; the adjacencies are new, without addresses
IsisInit ==
    /\ srv6db = [enabled |-> TRUE, srv6_locator_name |-> NoName,
                 srv6_locator_chunks |-> <<>>, srv6_sids |-> <<>>,
                 srv6_endx_sids |-> <<>>]
    /\ adjacencies = [a \in Adjs |->
            [adj_state |-> "ISIS_ADJ_INITIALIZING", ll_ipv6_count |-> 0,
             ipv6_router |-> TRUE,
             circ_type |-> IF a = "adj1" THEN "CIRCUIT_T_P2P"
                           ELSE "CIRCUIT_T_BROADCAST",
             adj_sids |-> <<>>, srv6_endx_sids |-> <<>>]]
    /\ isisEvent = IsisEvent("init", NoName)
    /\ isisLog = <<>>

\* isis_adj_state_change_hook: the adjacency has its new state when the
\* hook runs
AdjStateChange(adj, new_state) ==
    LET adjs == [adjacencies EXCEPT ![adj].adj_state = new_state]
        r == srv6_adj_state_change(srv6db, adjs, adj)
    IN /\ adjacencies[adj].adj_state # new_state
       /\ srv6db' = r.db
       /\ adjacencies' = r.adjs
       /\ isisLog' = r.log
       /\ isisEvent' = IsisEvent("adj_state_change", adj)

\* isis_adj_ip_enabled_hook: called when the adjacency gets its first address
\* of the family; for IPv6 link-local addresses ll_ipv6_count is then set.
\* Where struct isis_srv6_sid keeps value, the new srv6_adjacency holds the
\* pointer sra->sid and the bytes after it, never an address of the locator;
\* the model puts the next hop there.
AdjIpEnabled(adj, family, global) ==
    \E as_value \in {LinkLocal[adj]} :
        LET ll == family = "AF_INET6" /\ ~global
            adjs == IF ll THEN [adjacencies EXCEPT ![adj].ll_ipv6_count = 1]
                    ELSE adjacencies
            r == srv6_adj_ip_enabled(srv6db, adjs, adj, family, global, as_value)
        IN /\ ll => adjacencies[adj].ll_ipv6_count = 0
           /\ srv6db' = r.db
           /\ adjacencies' = r.adjs
           /\ isisLog' = r.log
           /\ isisEvent' = IsisEvent("adj_ip_enabled", adj)

\* isis_adj_ip_disabled_hook: called when the adjacency lost its last address
\* of the family
AdjIpDisabled(adj, family, global) ==
    LET ll == family = "AF_INET6" /\ ~global
        adjs == IF ll THEN [adjacencies EXCEPT ![adj].ll_ipv6_count = 0]
                ELSE adjacencies
        r == srv6_adj_ip_disabled(srv6db, adjs, adj, family, global)
    IN /\ ll => adjacencies[adj].ll_ipv6_count > 0
       /\ srv6db' = r.db
       /\ adjacencies' = r.adjs
       /\ isisLog' = r.log
       /\ isisEvent' = IsisEvent("adj_ip_disabled", adj)

\* the locator is configured and zebra delivers its chunk
IsisLocatorSet(chunk) ==
    /\ srv6db.srv6_locator_name = NoName
    /\ srv6db' = [srv6db EXCEPT !.srv6_locator_name = LocatorName,
                                !.srv6_locator_chunks = <<chunk>>]
    /\ isisLog' = <<>>
    /\ isisEvent' = IsisEvent("locator_set", chunk.id)
    /\ UNCHANGED adjacencies

\* the locator is unconfigured: isis_srv6_locator_unset(area)
IsisLocatorUnset(ret) ==
    LET r == isis_srv6_locator_unset(srv6db, adjacencies, ret)
    IN /\ srv6db' = r.db
       /\ adjacencies' = r.adjs
       /\ isisLog' = r.log
       /\ isisEvent' = IsisEvent("locator_unset", IF r.ret = 0 THEN "0" ELSE "-1")

\* a SID is allocated for the area's SID list: isis_srv6_sid_alloc with the
\* index the operator gave (0: automatic), the SID joins srv6_sids
IsisSidAlloc(index) ==
    LET sid == isis_srv6_sid_alloc(srv6db, index, Head(srv6db.srv6_locator_chunks),
                                   "END")
    IN /\ srv6db.srv6_locator_chunks # <<>>
       /\ Len(srv6db.srv6_sids) < MaxSids
       /\ srv6db' = IF sid = NoSid THEN srv6db
                    ELSE [srv6db EXCEPT !.srv6_sids = Append(@, sid)]
       /\ isisLog' = IF sid = NoSid THEN <<IsisReq("alloc_failed", index)>>
                     ELSE <<IsisReq("alloc", sid.value)>>
       /\ isisEvent' = IsisEvent("sid_alloc", IF index = 0 THEN "auto" ELSE "index")
       /\ UNCHANGED adjacencies

IsisStep ==
    \/ \E a \in Adjs, st \in AdjStates : AdjStateChange(a, st)
    \/ \E a \in Adjs, f \in Families, g \in BOOLEAN : AdjIpEnabled(a, f, g)
    \/ \E a \in Adjs, f \in Families, g \in BOOLEAN : AdjIpDisabled(a, f, g)
    \/ \E c \in IsisChunks : IsisLocatorSet(c)
    \/ \E ret \in {0, -1} : IsisLocatorUnset(ret)
    \/ \E index \in 0..1 : IsisSidAlloc(index)

----------------------------------------------------------------------------
(* staticd: one call of a zebra-facing function of static_srv6.c on a SID  *)
(* descriptor, for every descriptor and every state of the interface and   *)
(* VRF tables                                                              *)

VARIABLES
    sidCall,    \* the descriptor the function is called on, and the tables
    sidResult   \* the function called, the descriptor afterwards, its messages

sidCallVars == <<sidCall, sidResult>>

Behaviors ==
    {BEHAVIOR_UNSPEC, BEHAVIOR_END, BEHAVIOR_END_X, BEHAVIOR_END_T,
     BEHAVIOR_END_DT6, BEHAVIOR_END_DT4, BEHAVIOR_END_DT46, BEHAVIOR_UDT4,
     BEHAVIOR_UDT6, BEHAVIOR_UDT46, BEHAVIOR_UN, BEHAVIOR_UA}

\* descriptors as the configuration leaves them: VALID only with the
\* attributes the behavior requires
SidCallSids ==
    {s \in [addr : {"fc00::1"}, behavior : Behaviors, vrf_name : SidVrfNames,
            ifname : SidIfNames, valid : BOOLEAN, sent : BOOLEAN] :
        s.valid => RequiredAttrsPresent(s)}

SidCallVrfs ==
    {[n \in VrfNames |-> IF n = DefaultVrf THEN "active" ELSE st] :
        st \in {"absent", "inactive", "active"}}

NoResult == [fn |-> "none", sid |-> srv6_sid_alloc("fc00::1", BEHAVIOR_UNSPEC),
             out |-> <<>>]

SidCallInit ==
    /\ sidCall \in [sid : SidCallSids, ifs : SUBSET IfNames, vr : SidCallVrfs,
                    ok : BOOLEAN]
    /\ sidResult = NoResult

Called(fn, r) ==
    /\ sidResult = NoResult
    /\ sidResult' = [fn |-> fn, sid |-> r.sid, out |-> r.out]
    /\ UNCHANGED sidCall

CallSidAdd ==
    Called("static_zebra_srv6_sid_add",
           static_zebra_srv6_sid_add(sidCall.sid, sidCall.ifs, sidCall.vr, sidCall.ok))

CallSidDel ==
    Called("static_zebra_srv6_sid_del",
           static_zebra_srv6_sid_del(sidCall.sid, sidCall.vr, sidCall.ok))

CallSidUpdate ==
    Called("static_zebra_srv6_sid_update",
           static_zebra_srv6_sid_update(sidCall.sid, sidCall.ifs, sidCall.vr,
                                        sidCall.ok))

CallMarkValid(is_valid) ==
    /\ is_valid => RequiredAttrsPresent(sidCall.sid)
    /\ Called("mark_srv6_sid_as_valid",
              mark_srv6_sid_as_valid(sidCall.sid, is_valid, sidCall.ifs,
                                     sidCall.vr, sidCall.ok))

SidCallStep ==
    \/ CallSidAdd
    \/ CallSidDel
    \/ CallSidUpdate
    \/ \E is_valid \in BOOLEAN : CallMarkValid(is_valid)

----------------------------------------------------------------------------
(* isisd: one call of transpose_sid or of isis_srv6_sid_alloc, for every   *)
(* argument of a bounded set                                               *)

VARIABLES
    isisCall,    \* the function called and its arguments
    isisResult   \* what the call produced, NoIsisResult before it

isisCallVars == <<isisCall, isisResult>>

\* ffff:ffff:ffff:ffff:ffff:ffff:ffff:ffff
AllOnes == [i \in 1..16 |-> 255]

\* the arguments of transpose_sid: offset + len stays within the 128 bits
TrIndexes == {0, 1, 5, 43690, 65535}
TrOffsets == {0, 3, 48, 64, 88, 112}
TrLens == {0, 1, 8, 16, 32, 33, 40, 64}

\* function lengths of the chunks handed to isis_srv6_sid_alloc
MaxFuncLen == 3

\* a chunk of 2001:db8::/48 (block 32, node 16) with func_len function bits
SmallChunk(func_len) ==
    [id |-> "c", prefix |-> [addr |-> LocatorAddr, prefixlen |-> 48],
     block_bits_length |-> 32, node_bits_length |-> 16,
     function_bits_length |-> func_len, argument_bits_length |-> 0]

\* the indexes of used in ascending order
RECURSIVE Ascending(_)
Ascending(used) ==
    IF used = {} THEN <<>>
    ELSE <<Min(used)>> \o Ascending(used \ {Min(used)})

\* an area whose SID list holds the SIDs of chunk at the indexes of used
AreaUsing(chunk, used) ==
    [enabled |-> TRUE, srv6_locator_name |-> LocatorName,
     srv6_locator_chunks |-> <<chunk>>,
     srv6_sids |-> [k \in 1..Cardinality(used) |->
                      [value |-> transpose_sid(chunk.prefix.addr,
                                               Ascending(used)[k], 48,
                                               chunk.function_bits_length),
                       behavior |-> "END", locator |-> chunk.id]],
     srv6_endx_sids |-> <<>>]

IsisCallOf(fn, sid, i, j, offset, len, func_len, used) ==
    [fn |-> fn, sid |-> sid, i |-> i, j |-> j, offset |-> offset, len |-> len,
     func_len |-> func_len, used |-> used]

TransposeCalls ==
    {IsisCallOf("transpose_sid", sid, i, j, offset, len, 0, {}) :
        sid \in {LocatorAddr, AllOnes}, i \in TrIndexes, j \in TrIndexes,
        offset \in TrOffsets, len \in TrLens}

\* the index sets in use: the first k indexes, all of them or all but one
UsedSets(func_len) ==
    {(1..k) \ {h} : k \in 0..((2 ^ func_len) - 1), h \in 0..((2 ^ func_len) - 1)}

AllocCalls ==
    UNION {{IsisCallOf("isis_srv6_sid_alloc", LocatorAddr, 0, 0, 48, f, f, used) :
               used \in UsedSets(f)} : f \in 1..MaxFuncLen}

\* the function lengths the "prefix" command takes: func-bits (16-64)
ConfigurableFuncBits == 16..64

\* auto-mode calls on a chunk of a configured function length, in an area
\* that uses none of its indexes
ConfiguredAllocCalls ==
    {IsisCallOf("isis_srv6_sid_alloc(func-bits)", LocatorAddr, 0, 0, 48, f, f, {}) :
        f \in ConfigurableFuncBits}

NoIsisResult ==
    [fn |-> "none", first |-> AllOnes, twice |-> AllOnes, alone |-> AllOnes,
     sid |-> NoSid, index_max |-> <<0, 0>>]

IsisCallInit ==
    /\ isisCall \in {c \in TransposeCalls : c.offset + c.len <= 128}
                       \cup AllocCalls \cup ConfiguredAllocCalls
    /\ isisResult = NoIsisResult

IsisCallIdle ==
    /\ isisCall = IsisCallOf("none", AllOnes, 0, 0, 0, 0, 0, {})
    /\ isisResult = NoIsisResult

\* transpose_sid(&sid, i, offset, len); the same followed by
\* transpose_sid(&sid, j, offset, len); and transpose_sid(&sid, j, offset, len)
\* alone.  A shift by 32 bits or more behaves as the build makes it.
CallTransposeSid ==
    /\ isisCall.fn = "transpose_sid"
    /\ isisResult = NoIsisResult
    /\ \E wide \in {"zero", "masked"} :
         LET c == isisCall
             first == transpose_sid_wide(c.sid, c.i, c.offset, c.len, wide)
         IN isisResult' =
                [fn |-> "transpose_sid", first |-> first,
                 twice |-> transpose_sid_wide(first, c.j, c.offset, c.len, wide),
                 alone |-> transpose_sid_wide(c.sid, c.j, c.offset, c.len, wide),
                 sid |-> NoSid, index_max |-> <<0, 0>>]
    /\ UNCHANGED isisCall

\* isis_srv6_sid_alloc(area, 0, chunk, behavior) on an area that uses the
\* indexes of isisCall.used
CallSidAlloc ==
    /\ isisCall.fn = "isis_srv6_sid_alloc"
    /\ isisResult = NoIsisResult
    /\ LET chunk == SmallChunk(isisCall.func_len)
       IN isisResult' =
              [NoIsisResult EXCEPT
                  !.fn = "isis_srv6_sid_alloc",
                  !.sid = isis_srv6_sid_alloc(AreaUsing(chunk, isisCall.used),
                                              0, chunk, "END")]
    /\ UNCHANGED isisCall

\* isis_srv6_sid_alloc(area, 0, chunk, behavior) on a chunk of one of the
\* function lengths the locator configuration takes; index_max is kept
CallSidAllocConfigured ==
    /\ isisCall.fn = "isis_srv6_sid_alloc(func-bits)"
    /\ isisResult = NoIsisResult
    /\ \E wide \in {"zero", "masked"} :
         LET chunk == SmallChunk(isisCall.func_len)
         IN isisResult' =
                [NoIsisResult EXCEPT
                    !.fn = "isis_srv6_sid_alloc(func-bits)",
                    !.sid = isis_srv6_sid_alloc_wide(AreaUsing(chunk, isisCall.used),
                                                     0, chunk, "END", wide),
                    !.index_max = index_max32(chunk.function_bits_length, wide)]
    /\ UNCHANGED isisCall

IsisCallStep == CallTransposeSid \/ CallSidAlloc \/ CallSidAllocConfigured

----------------------------------------------------------------------------
(* staticd: static routes towards zebra, static_zebra_route_add and the    *)
(* ROUTE_NOTIFY_OWNER callback (src/staticd/static_srv6.c)                 *)

VARIABLES
    routes,      \* per prefix, the nexthop of the route's path
    routeEvent,  \* the handler that ran last, with its arguments
    routeMsgs    \* what that handler sent to zebra, in order

routeVars == <<routes, routeEvent, routeMsgs>>

RoutePrefixes == {"10.0.0.0/24", "10.0.1.0/24", "10.0.2.0/24"}

\* enum static_install_states
InstallStates ==
    {"STATIC_START", "STATIC_SENT_TO_ZEBRA", "STATIC_NOT_INSTALLED",
     "STATIC_INSTALLED"}

\* enum zapi_route_notify_owner, the outcome codes route_notify_owner handles
RouteNotes ==
    {"ZAPI_ROUTE_FAIL_INSTALL", "ZAPI_ROUTE_BETTER_ADMIN_WON",
     "ZAPI_ROUTE_INSTALLED", "ZAPI_ROUTE_REMOVED", "ZAPI_ROUTE_REMOVE_FAIL"}

\* the nexthop of each route: 10.0.0.0/24 has a resolved nexthop in a known
\* VRF, 10.0.1.0/24 a nexthop of a known VRF that cannot be used yet
\* (ifindex IFINDEX_INTERNAL or !nh_valid), 10.0.2.0/24 a nexthop whose VRF
\* is VRF_UNKNOWN
NexthopOf(p) ==
    [state |-> "STATIC_START",
     vrf_known |-> p # "10.0.2.0/24",
     usable |-> p = "10.0.0.0/24"]

RouteMsg(cmd, p) == [cmd |-> cmd, prefix |-> p]

RouteEvent(type, p, arg) == [type |-> type, prefix |-> p, arg |-> arg]

\* static_nht_mark_state: the nexthops of the route to p get this state
static_nht_mark_state(rts, p, state) ==
    [rts EXCEPT ![p].state = state]

\* static_zebra_route_add for the path of p: the routes afterwards and the
\* message sent.  A nexthop of an unknown VRF is skipped; any other is marked
\* STATIC_SENT_TO_ZEBRA before its type decides whether it goes into the
\* message.  An install without a nexthop becomes a delete.
static_zebra_route_add(rts, p, install) ==
    LET nh == rts[p]
        nh_num == IF nh.vrf_known /\ nh.usable THEN 1 ELSE 0
        inst == IF nh_num = 0 /\ install THEN FALSE ELSE install
    IN [routes |-> IF nh.vrf_known
                   THEN [rts EXCEPT ![p].state = "STATIC_SENT_TO_ZEBRA"]
                   ELSE rts,
        msgs |-> <<RouteMsg(IF inst THEN "ZEBRA_ROUTE_ADD"
                            ELSE "ZEBRA_ROUTE_DELETE", p)>>]

\* route_notify_owner sending the route again after a failed install
route_notify_owner_retry(rts, p, note, decoded) ==
    IF ~decoded THEN [routes |-> rts, msgs |-> <<>>]
    ELSE IF note = "ZAPI_ROUTE_FAIL_INSTALL"
    THEN static_zebra_route_add(
             static_nht_mark_state(rts, p, "STATIC_NOT_INSTALLED"), p, TRUE)
    ELSE IF note \in {"ZAPI_ROUTE_BETTER_ADMIN_WON", "ZAPI_ROUTE_REMOVED"}
    THEN [routes |-> static_nht_mark_state(rts, p, "STATIC_NOT_INSTALLED"),
          msgs |-> <<>>]
    ELSE [routes |-> static_nht_mark_state(rts, p, "STATIC_INSTALLED"),
          msgs |-> <<>>]

\* route_notify_owner: decoded is whether zapi_route_notify_decode succeeded
route_notify_owner(rts, p, note, decoded) ==
    IF ~decoded THEN [routes |-> rts, msgs |-> <<>>]
    ELSE [routes |->
              CASE note = "ZAPI_ROUTE_FAIL_INSTALL" ->
                       static_nht_mark_state(rts, p, "STATIC_NOT_INSTALLED")
                [] note = "ZAPI_ROUTE_BETTER_ADMIN_WON" ->
                       static_nht_mark_state(rts, p, "STATIC_NOT_INSTALLED")
                [] note = "ZAPI_ROUTE_INSTALLED" ->
                       static_nht_mark_state(rts, p, "STATIC_INSTALLED")
                [] note = "ZAPI_ROUTE_REMOVED" ->
                       static_nht_mark_state(rts, p, "STATIC_NOT_INSTALLED")
                [] note = "ZAPI_ROUTE_REMOVE_FAIL" ->
                       static_nht_mark_state(rts, p, "STATIC_INSTALLED")
                [] OTHER -> rts,
          msgs |-> <<>>]

RouteInit ==
    /\ routes = [p \in RoutePrefixes |-> NexthopOf(p)]
    /\ routeEvent = RouteEvent("init", "", "")
    /\ routeMsgs = <<>>

\* static_zebra_route_add(pn, install)
RouteAdd(p, install) ==
    LET r == static_zebra_route_add(routes, p, install)
    IN /\ routes' = r.routes
       /\ routeMsgs' = r.msgs
       /\ routeEvent' = RouteEvent("route_add", p, IF install THEN "install"
                                                   ELSE "uninstall")

\* the ZEBRA_ROUTE_NOTIFY_OWNER callback; a message that does not decode has
\* no prefix and no outcome code
RouteNotifyOwner(p, note, decoded) ==
    LET r == route_notify_owner(routes, p, note, decoded)
    IN /\ routes' = r.routes
       /\ routeMsgs' = r.msgs
       /\ routeEvent' = IF decoded THEN RouteEvent("route_notify_owner", p, note)
                        ELSE RouteEvent("route_notify_owner", "", "undecoded")

RouteStep ==
    \/ \E p \in RoutePrefixes, install \in BOOLEAN : RouteAdd(p, install)
    \/ \E p \in RoutePrefixes, note \in RouteNotes, decoded \in BOOLEAN :
           RouteNotifyOwner(p, note, decoded)

----------------------------------------------------------------------------
(* zebra: the FPM netlink route encoder (src/unnamed/part_004).  A route   *)
(* is encoded into a buffer of a given capacity, the broker's SRv6         *)
(* encapsulation source address or VRF table may change, and the same      *)
(* route is encoded again.                                                 *)

VARIABLES
    fpmCall,     \* cmd, route and buffer capacity of the encodings, and what
                 \* the build makes of a store through a NULL pointer
    fpmBroker,   \* zebra's state outside the route: encap source, VRFs
    fpmResults,  \* what the encodings made so far returned, in order
    fpmEvent     \* the step taken last

fpmVars == <<fpmCall, fpmBroker, fpmResults, fpmEvent>>

\* sizeof(struct nlmsghdr) + sizeof(struct rtmsg): offset of buf in req, and
\* NLMSG_LENGTH(sizeof(struct rtmsg))
ReqHeaderLen == 28
\* sizeof(struct rtattr)
RtaHeaderLen == 4
\* sizeof(struct rtnexthop)
RtnhLen == 8
\* af_addr_size(AF_INET6)
Af6AddrSize == 16
\* zrouter.multipath_num
MultipathNum == 2
\* table ids: one that fits rtm_table and one that needs RTA_TABLE
FpmTables == {254, 1000}
\* capacities of the caller's buffer
FpmCapacities == {20, 28, 48, 64, 76, 100, 128, 512}

\* RTA_ALIGN and NLMSG_ALIGN: the next multiple of 4
RtaAlign(n) == ((n + 3) \div 4) * 4

\* numeric value of the seg6local_action_t codes (lib/srv6.h)
Seg6LocalValue ==
    [ZEBRA_SEG6_LOCAL_ACTION_UNSPEC |-> 0, ZEBRA_SEG6_LOCAL_ACTION_END |-> 1,
     ZEBRA_SEG6_LOCAL_ACTION_END_X |-> 2, ZEBRA_SEG6_LOCAL_ACTION_END_T |-> 3,
     ZEBRA_SEG6_LOCAL_ACTION_END_DX6 |-> 5,
     ZEBRA_SEG6_LOCAL_ACTION_END_DX4 |-> 6, ZEBRA_SEG6_LOCAL_ACTION_END_DT6 |-> 7,
     ZEBRA_SEG6_LOCAL_ACTION_END_DT4 |-> 8, ZEBRA_SEG6_LOCAL_ACTION_END_B6 |-> 9,
     ZEBRA_SEG6_LOCAL_ACTION_END_DT46 |-> 16, ZEBRA_SEG6_LOCAL_ACTION_UDT4 |-> 100,
     ZEBRA_SEG6_LOCAL_ACTION_UDT6 |-> 101, ZEBRA_SEG6_LOCAL_ACTION_UDT46 |-> 102]

\* enum srv6_localsid_action_t, the codes the encoder's switch handles
FpmLocalsidAction ==
    [FPM_SRV6_LOCALSID_ACTION_END |-> 1, FPM_SRV6_LOCALSID_ACTION_END_X |-> 2,
     FPM_SRV6_LOCALSID_ACTION_END_T |-> 3, FPM_SRV6_LOCALSID_ACTION_END_DX4 |-> 6,
     FPM_SRV6_LOCALSID_ACTION_END_DT6 |-> 7, FPM_SRV6_LOCALSID_ACTION_END_DT4 |-> 8,
     FPM_SRV6_LOCALSID_ACTION_END_DT46 |-> 16, FPM_SRV6_LOCALSID_ACTION_UDT4 |-> 100,
     FPM_SRV6_LOCALSID_ACTION_UDT6 |-> 101, FPM_SRV6_LOCALSID_ACTION_UDT46 |-> 102]

\* strlen of the VRF names of the model
VrfNameLen(name) ==
    CASE name = "" -> 0 [] name = "red" -> 3 [] name = "vrf-blue" -> 8

\* seg6local_structure: the four lengths of a SID, in bits
SidStructure(block, node, func, arg) ==
    [block_bits_length |-> block, node_bits_length |-> node,
     function_bits_length |-> func, argument_bits_length |-> arg]

NoSrv6 == [present |-> FALSE, seg6local_action |-> "ZEBRA_SEG6_LOCAL_ACTION_UNSPEC",
           nh4 |-> "0.0.0.0", nh6 |-> "::", table |-> 0,
           seg6local_structure |-> SidStructure(0, 0, 0, 0), seg6_segs |-> "::"]

\* struct nexthop as the encoder reads it.  The nexthops of the model carry
\* no source address and no NEXTHOP_FLAG_EVPN.
FpmNexthop(type, ifindex, gate, weight, flags, srv6) ==
    [type |-> type, ifindex |-> ifindex, gate |-> gate, weight |-> weight,
     flags |-> flags, srv6 |-> srv6]

LocalSidOf(action, nh4, nh6, table, structure) ==
    [present |-> TRUE, seg6local_action |-> action, nh4 |-> nh4, nh6 |-> nh6,
     table |-> table, seg6local_structure |-> structure, seg6_segs |-> "::"]

NhGw == FpmNexthop("NEXTHOP_TYPE_IPV6", 2, "fe80::1", 1, {"ACTIVE"}, NoSrv6)
NhGwB == FpmNexthop("NEXTHOP_TYPE_IPV6", 3, "fe80::2", 1, {"ACTIVE"}, NoSrv6)
NhRecursive ==
    FpmNexthop("NEXTHOP_TYPE_IPV6", 0, "2001:db8::9", 1, {"ACTIVE", "RECURSIVE"},
               NoSrv6)
NhInactive == FpmNexthop("NEXTHOP_TYPE_IPV6", 2, "fe80::1", 1, {}, NoSrv6)
NhBlackhole == FpmNexthop("NEXTHOP_TYPE_BLACKHOLE", 0, "::", 1, {"ACTIVE"}, NoSrv6)
NhEndX ==
    FpmNexthop("NEXTHOP_TYPE_IFINDEX", 2, "::", 1, {"ACTIVE"},
               LocalSidOf("ZEBRA_SEG6_LOCAL_ACTION_END_X", "0.0.0.0", "fe80::1", 0,
                          SidStructure(0, 0, 0, 0)))
NhEndDT6 ==
    FpmNexthop("NEXTHOP_TYPE_IFINDEX", 2, "::", 1, {"ACTIVE"},
               LocalSidOf("ZEBRA_SEG6_LOCAL_ACTION_END_DT6", "0.0.0.0", "::", 100,
                          SidStructure(0, 0, 0, 0)))
NhEndB6 ==
    FpmNexthop("NEXTHOP_TYPE_IFINDEX", 2, "::", 1, {"ACTIVE"},
               LocalSidOf("ZEBRA_SEG6_LOCAL_ACTION_END_B6", "0.0.0.0", "::", 0,
                          SidStructure(0, 0, 0, 0)))
NhSegs ==
    FpmNexthop("NEXTHOP_TYPE_IPV6", 2, "fe80::1", 1, {"ACTIVE"},
               [NoSrv6 EXCEPT !.present = TRUE, !.seg6_segs = "2001:db8:0:1::"])

\* the seg6local actions of the local SIDs encoded alone: those the encoder
\* handles, and End.DX6 and End.B6, which it does not
LocalSidActions ==
    {"ZEBRA_SEG6_LOCAL_ACTION_END", "ZEBRA_SEG6_LOCAL_ACTION_END_X",
     "ZEBRA_SEG6_LOCAL_ACTION_END_T", "ZEBRA_SEG6_LOCAL_ACTION_END_DX6",
     "ZEBRA_SEG6_LOCAL_ACTION_END_DX4", "ZEBRA_SEG6_LOCAL_ACTION_END_DT6",
     "ZEBRA_SEG6_LOCAL_ACTION_END_DT4", "ZEBRA_SEG6_LOCAL_ACTION_END_B6",
     "ZEBRA_SEG6_LOCAL_ACTION_END_DT46", "ZEBRA_SEG6_LOCAL_ACTION_UDT4",
     "ZEBRA_SEG6_LOCAL_ACTION_UDT6", "ZEBRA_SEG6_LOCAL_ACTION_UDT46"}

\* a local SID of structure (40, 24, 16, 0) with every context field set
NhLocalSid(action) ==
    FpmNexthop("NEXTHOP_TYPE_IFINDEX", 2, "::", 1, {"ACTIVE"},
               LocalSidOf(action, "192.0.2.1", "fe80::1", 100,
                          SidStructure(40, 24, 16, 0)))

\* the nexthop groups of the routes
FpmNexthopGroups ==
    {<<>>, <<NhGw>>, <<NhRecursive>>, <<NhInactive>>, <<NhBlackhole>>,
     <<NhEndX>>, <<NhEndDT6>>, <<NhEndB6>>, <<NhSegs>>,
     <<NhGw, NhGwB>>, <<NhRecursive, NhGw>>, <<NhGw, NhEndDT6>>,
     <<NhGw, NhGwB, NhGw>>}
    \cup {<<NhLocalSid(action)>> : action \in LocalSidActions}

\* dest and re: an IPv6 prefix of a table; re is NULL when present is FALSE
FpmRoutes ==
    {[prefix |-> "2001:db8:1::/48", table_id |-> t, present |-> pr,
      installed |-> inst, metric |-> 20, nhg |-> g] :
        t \in FpmTables, pr \in BOOLEAN, inst \in BOOLEAN, g \in FpmNexthopGroups}

\* zebra_srv6_get_default()->encap_src_addr and the VRF of each table
FpmBrokers ==
    [encap_src_addr : {"2001:db8::1", "2001:db8::2"},
     vrf_of_table : [{100} -> {"", "red", "vrf-blue"}]]

\* vrf_lookup_by_table_id with the VRF-lite backend: the name of the VRF whose
\* table this is, "" for NULL
vrf_lookup_by_table_id(broker, table_id) ==
    IF table_id \in DOMAIN broker.vrf_of_table
    THEN broker.vrf_of_table[table_id] ELSE ""

NoGateway == "NULL"

\* netlink_route_info_add_nh: ri with the nexthop added, or ri as it is when
\* the function returns 0
netlink_route_info_add_nh(ri, nexthop, broker) ==
    LET gateway == IF nexthop.type = "NEXTHOP_TYPE_IPV6"
                   THEN nexthop.gate ELSE NoGateway
        s6 == nexthop.srv6
        local == s6.present
                 /\ s6.seg6local_action # "ZEBRA_SEG6_LOCAL_ACTION_UNSPEC"
        supported == s6.seg6local_action \in
                        {"ZEBRA_SEG6_LOCAL_ACTION_END", "ZEBRA_SEG6_LOCAL_ACTION_END_X",
                         "ZEBRA_SEG6_LOCAL_ACTION_END_T", "ZEBRA_SEG6_LOCAL_ACTION_END_DX4",
                         "ZEBRA_SEG6_LOCAL_ACTION_END_DT6", "ZEBRA_SEG6_LOCAL_ACTION_END_DT4",
                         "ZEBRA_SEG6_LOCAL_ACTION_END_DT46",
                         "ZEBRA_SEG6_LOCAL_ACTION_UDT6", "ZEBRA_SEG6_LOCAL_ACTION_UDT4",
                         "ZEBRA_SEG6_LOCAL_ACTION_UDT46"}
        segs == s6.present /\ ~local /\ s6.seg6_segs # "::"
        nhi == [weight |-> nexthop.weight, if_index |-> nexthop.ifindex,
                gateway |-> gateway, type |-> nexthop.type,
                encap_type |-> IF local THEN "FPM_NH_ENCAP_SRV6_LOCAL_SID"
                               ELSE IF segs THEN "FPM_NH_ENCAP_SRV6_ROUTE"
                               ELSE "FPM_NH_ENCAP_NONE",
                \* the code the switch chose is overwritten by the value of
                \* seg6local_action itself
                localsid_action |-> IF local THEN Seg6LocalValue[s6.seg6local_action]
                                    ELSE 0,
                nh4 |-> IF local THEN s6.nh4 ELSE "0.0.0.0",
                nh6 |-> IF local THEN s6.nh6 ELSE "::",
                localsid_format |-> IF local THEN s6.seg6local_structure
                                    ELSE SidStructure(0, 0, 0, 0),
                vrf_name |-> IF local /\ s6.table # 0
                             THEN vrf_lookup_by_table_id(broker, s6.table)
                             ELSE "",
                vpn_sid |-> IF segs THEN s6.seg6_segs ELSE "::",
                encap_src_addr |-> IF segs THEN broker.encap_src_addr ELSE "::"]
    IN IF Len(ri.nhs) >= MultipathNum THEN ri
       ELSE IF gateway = NoGateway /\ nexthop.ifindex = 0 THEN ri
       ELSE IF local /\ ~supported THEN ri
       ELSE [ri EXCEPT !.nhs = Append(@, nhi)]

\* the loop of netlink_route_info_fill over the nexthops from k on
RECURSIVE fill_nexthops(_, _, _, _, _)
fill_nexthops(ri, cmd, re, broker, k) ==
    IF k > Len(re.nhg) \/ Len(ri.nhs) >= MultipathNum THEN ri
    ELSE LET nexthop == re.nhg[k]
             typed == IF nexthop.type = "NEXTHOP_TYPE_BLACKHOLE"
                      THEN [ri EXCEPT !.rtm_type = "RTN_BLACKHOLE"]
                      ELSE ri
             add == \/ cmd = "RTM_NEWROUTE" /\ "ACTIVE" \in nexthop.flags
                    \/ cmd = "RTM_DELROUTE" /\ re.installed
         IN IF "RECURSIVE" \in nexthop.flags
            THEN fill_nexthops(ri, cmd, re, broker, k + 1)
            ELSE fill_nexthops(IF add
                               THEN netlink_route_info_add_nh(typed, nexthop, broker)
                               ELSE typed,
                               cmd, re, broker, k + 1)

\* netlink_route_info_fill: [ok, ri]
netlink_route_info_fill(cmd, re, broker) ==
    LET ri0 == [nlmsg_type |-> cmd, rtm_type |-> "RTN_UNSPEC",
                rtm_table |-> re.table_id, rtm_protocol |-> "RTPROT_UNSPEC",
                prefix |-> re.prefix, metric |-> 0, has_metric |-> FALSE,
                nhs |-> <<>>]
        ri1 == [ri0 EXCEPT !.rtm_protocol = "RTPROT_ZEBRA",
                           !.rtm_type = "RTN_UNICAST",
                           !.metric = re.metric, !.has_metric = TRUE]
        ri2 == fill_nexthops(ri1, cmd, re, broker, 1)
    IN IF cmd = "RTM_DELROUTE" /\ ~re.present THEN [ok |-> TRUE, ri |-> ri0]
       ELSE IF ~re.present THEN [ok |-> FALSE, ri |-> ri0]
       ELSE IF ri2.nhs = <<>> /\ ri2.rtm_type # "RTN_BLACKHOLE"
       THEN [ok |-> FALSE, ri |-> ri2]
       ELSE [ok |-> TRUE, ri |-> ri2]

\* the calls netlink_route_info_encode makes on the message, in order
OpPut(type, data, alen) == [op |-> "put", type |-> type, data |-> data, alen |-> alen]
OpPutInt(type, n, alen) == OpPut(type, ToString(n), alen)
OpNest(type) == [op |-> "nest", type |-> type, data |-> "", alen |-> 0]
OpNestEnd == [op |-> "nest_end", type |-> "", data |-> "", alen |-> 0]
OpRtnh(ifindex, hops) ==
    [op |-> "rtnh", type |-> "rtnexthop", data |-> ToString(<<ifindex, hops>>),
     alen |-> 0]
OpRtnhEnd == [op |-> "rtnh_end", type |-> "", data |-> "", alen |-> 0]
OpReturn0 == [op |-> "return0", type |-> "", data |-> "", alen |-> 0]

\* the local SID encapsulation with the lengths and the action code only
LocalSidOpsBare(nhi) ==
    <<OpPutInt("RTA_ENCAP_TYPE", 102, 2), OpNest("RTA_ENCAP"),
      OpPutInt("FPM_SRV6_LOCALSID_BLOCK_LEN",
               nhi.localsid_format.block_bits_length, 1),
      OpPutInt("FPM_SRV6_LOCALSID_NODE_LEN",
               nhi.localsid_format.node_bits_length, 1),
      OpPutInt("FPM_SRV6_LOCALSID_FUNC_LEN",
               nhi.localsid_format.function_bits_length, 1),
      OpPutInt("FPM_SRV6_LOCALSID_ARG_LEN",
               nhi.localsid_format.argument_bits_length, 1),
      OpPutInt("FPM_SRV6_LOCALSID_ACTION", nhi.localsid_action, 4),
      OpNestEnd>>

\* the attributes of the SRv6 local SID encapsulation
LocalSidOps(nhi) ==
    LET a == nhi.localsid_action
        F == FpmLocalsidAction
        action == OpPutInt("FPM_SRV6_LOCALSID_ACTION", a, 4)
        vrfname == OpPut("FPM_SRV6_LOCALSID_VRFNAME", nhi.vrf_name,
                         VrfNameLen(nhi.vrf_name) + 1)
    IN <<OpPutInt("RTA_ENCAP_TYPE", 102, 2), OpNest("RTA_ENCAP"),
         OpPutInt("FPM_SRV6_LOCALSID_BLOCK_LEN",
                  nhi.localsid_format.block_bits_length, 1),
         OpPutInt("FPM_SRV6_LOCALSID_NODE_LEN",
                  nhi.localsid_format.node_bits_length, 1),
         OpPutInt("FPM_SRV6_LOCALSID_FUNC_LEN",
                  nhi.localsid_format.function_bits_length, 1),
         OpPutInt("FPM_SRV6_LOCALSID_ARG_LEN",
                  nhi.localsid_format.argument_bits_length, 1)>>
       \o (IF a = F.FPM_SRV6_LOCALSID_ACTION_END THEN <<action>>
           ELSE IF a = F.FPM_SRV6_LOCALSID_ACTION_END_X
           THEN <<action, OpPut("FPM_SRV6_LOCALSID_NH6", nhi.nh6, 16)>>
           ELSE IF a = F.FPM_SRV6_LOCALSID_ACTION_END_DX4
           THEN <<action, OpPut("FPM_SRV6_LOCALSID_NH4", nhi.nh4, 4)>>
           ELSE IF a \in {F.FPM_SRV6_LOCALSID_ACTION_END_T,
                          F.FPM_SRV6_LOCALSID_ACTION_END_DT6,
                          F.FPM_SRV6_LOCALSID_ACTION_END_DT4,
                          F.FPM_SRV6_LOCALSID_ACTION_END_DT46,
                          F.FPM_SRV6_LOCALSID_ACTION_UDT6,
                          F.FPM_SRV6_LOCALSID_ACTION_UDT4,
                          F.FPM_SRV6_LOCALSID_ACTION_UDT46}
           THEN <<action, vrfname>>
           ELSE <<OpReturn0>>)
       \o <<OpNestEnd>>

\* the single-nexthop case
SingleNexthopOps(nhi) ==
    (IF nhi.gateway # NoGateway
     THEN <<OpPut("RTA_GATEWAY", nhi.gateway, Af6AddrSize)>> ELSE <<>>)
    \o (IF nhi.if_index # 0 THEN <<OpPutInt("RTA_OIF", nhi.if_index, 4)>> ELSE <<>>)
    \o (IF nhi.encap_type = "FPM_NH_ENCAP_SRV6_LOCAL_SID" THEN LocalSidOps(nhi)
        ELSE IF nhi.encap_type = "FPM_NH_ENCAP_SRV6_ROUTE"
        THEN <<OpPutInt("RTA_ENCAP_TYPE", 101, 2), OpNest("RTA_ENCAP"),
               OpPut("FPM_SRV6_ROUTE_ENCAP_SRC_ADDR", nhi.encap_src_addr, 16),
               OpPut("FPM_SRV6_ROUTE_VPN_SID", nhi.vpn_sid, 16),
               OpNestEnd>>
        ELSE <<>>)

\* one entry of the multipath case; the SRv6 encapsulations add nothing
RECURSIVE MultipathOps(_, _)
MultipathOps(nhs, k) ==
    IF k > Len(nhs) THEN <<>>
    ELSE <<OpRtnh(nhs[k].if_index, nhs[k].weight)>>
         \o (IF nhs[k].gateway # NoGateway
             THEN <<OpPut("RTA_GATEWAY", nhs[k].gateway, Af6AddrSize)>> ELSE <<>>)
         \o <<OpRtnhEnd>>
         \o MultipathOps(nhs, k + 1)

EncodeOps(ri) ==
    (IF ri.rtm_table < 256 THEN <<>>
     ELSE <<OpPutInt("RTA_TABLE", ri.rtm_table, 4)>>)
    \o <<OpPut("RTA_DST", ri.prefix, Af6AddrSize)>>
    \o (IF ri.has_metric THEN <<OpPutInt("RTA_PRIORITY", ri.metric, 4)>> ELSE <<>>)
    \o (IF Len(ri.nhs) = 0 THEN <<>>
        ELSE IF Len(ri.nhs) = 1 THEN SingleNexthopOps(ri.nhs[1])
        ELSE <<OpNest("RTA_MULTIPATH")>> \o MultipathOps(ri.nhs, 1)
             \o <<OpNestEnd>>)

\* the message under construction: nlmsg_len, the attributes appended, the
\* open nests and rtnexthops (0 for a NULL handle), whether an attribute was
\* refused for lack of space, and how the encoding goes on
NewMessage ==
    [len |-> ReqHeaderLen, attrs |-> <<>>, open |-> <<>>, dropped |-> FALSE,
     outcome |-> "running"]

\* nl_attr_put, nl_attr_put8/16/32: append the attribute if it fits into
\* maxlen, refuse it otherwise
nl_attr_put(m, maxlen, type, data, alen) ==
    LET at == RtaAlign(m.len)
        len == RtaHeaderLen + alen
    IN IF at + RtaAlign(len) > maxlen THEN [m EXCEPT !.dropped = TRUE]
       ELSE [m EXCEPT !.len = at + RtaAlign(len),
                      !.attrs = Append(@, [type |-> type, data |-> data,
                                           at |-> at, rta_len |-> len])]

\* nl_attr_nest: an attribute without payload, NULL if it does not fit
nl_attr_nest(m, maxlen, type) ==
    LET put == nl_attr_put(m, maxlen, type, "", 0)
    IN IF Len(put.attrs) = Len(m.attrs)
       THEN [put EXCEPT !.open = Append(@, 0)]
       ELSE [put EXCEPT !.open = Append(@, Len(put.attrs))]

\* nl_attr_rtnh: a struct rtnexthop, NULL if it does not fit
nl_attr_rtnh(m, maxlen) ==
    LET at == RtaAlign(m.len)
    IN IF at + RtaAlign(RtnhLen) > maxlen
       THEN [m EXCEPT !.dropped = TRUE, !.open = Append(@, 0)]
       ELSE [m EXCEPT !.len = at + RtaAlign(RtnhLen),
                      !.attrs = Append(@, [type |-> "rtnexthop", data |-> ToString(<<0, 0>>),
                                           at |-> at, rta_len |-> RtnhLen]),
                      !.open = Append(@, Len(m.attrs) + 1)]

\* a store through the handle h; through NULL it is undefined: the process
\* faults, or the store is not made and the encoding goes on
StoreAt(m, h, ub, stored) ==
    IF h # 0 THEN stored
    ELSE IF ub = "fault" THEN [m EXCEPT !.outcome = "fault"]
    ELSE m

\* one call on the message
ApplyOp(m, maxlen, o, ub) ==
    LET h == m.open[Len(m.open)]
        closed == [m EXCEPT !.open = SubSeq(@, 1, Len(@) - 1)]
    IN CASE o.op = "put" -> nl_attr_put(m, maxlen, o.type, o.data, o.alen)
         [] o.op = "nest" -> nl_attr_nest(m, maxlen, o.type)
         [] o.op = "nest_end" ->
                StoreAt(closed, h, ub,
                        [closed EXCEPT !.attrs[h].rta_len = m.len - m.attrs[h].at])
         [] o.op = "rtnh" ->
                LET r == nl_attr_rtnh(m, maxlen)
                    g == r.open[Len(r.open)]
                IN StoreAt(r, g, ub, [r EXCEPT !.attrs[g].data = o.data])
         [] o.op = "rtnh_end" ->
                StoreAt(closed, h, ub,
                        [closed EXCEPT !.attrs[h].rta_len = m.len - m.attrs[h].at])
         [] o.op = "return0" -> [m EXCEPT !.outcome = "return0"]

\* the calls from the k-th on, until one ends the encoding
RECURSIVE ApplyOps(_, _, _, _, _)
ApplyOps(m, maxlen, ops, k, ub) ==
    IF k > Len(ops) \/ m.outcome # "running" THEN m
    ELSE ApplyOps(ApplyOp(m, maxlen, ops[k], ub), maxlen, ops, k + 1, ub)

\* what an encoding gives its caller: how it ended ("returned", "abort" for a
\* failed assert, "fault" for a store through NULL), the value returned, the
\* message in the buffer, and whether an attribute was refused
FpmResult(outcome, ret, m) ==
    [outcome |-> outcome, ret |-> ret, len |-> m.len, attrs |-> m.attrs,
     dropped |-> m.dropped]

\* netlink_route_info_encode
netlink_route_info_encode(ri, in_buf_len, ub) ==
    IF in_buf_len < ReqHeaderLen
    THEN FpmResult("abort", 0, [NewMessage EXCEPT !.len = 0])
    ELSE LET m == ApplyOps(NewMessage, in_buf_len, EncodeOps(ri), 1, ub)
         IN IF m.outcome = "fault" THEN FpmResult("fault", 0, m)
            ELSE IF m.outcome = "return0" THEN FpmResult("returned", 0, m)
            ELSE IF ~(m.len < in_buf_len) THEN FpmResult("abort", 0, m)
            ELSE FpmResult("returned", m.len, m)

\* zfpm_netlink_encode_route
zfpm_netlink_encode_route(cmd, re, in_buf_len, broker, ub) ==
    LET f == netlink_route_info_fill(cmd, re, broker)
    IN IF ~f.ok THEN FpmResult("returned", 0, [NewMessage EXCEPT !.len = 0])
       ELSE netlink_route_info_encode(f.ri, in_buf_len, ub)

FpmInit ==
    /\ fpmCall \in [cmd : {"RTM_NEWROUTE", "RTM_DELROUTE"}, re : FpmRoutes,
                    in_buf_len : FpmCapacities, ub : {"fault", "skipped"}]
    /\ fpmBroker \in FpmBrokers
    /\ fpmResults = <<>>
    /\ fpmEvent = "init"

FpmIdle ==
    /\ fpmCall = [cmd |-> "RTM_NEWROUTE",
                  re |-> [prefix |-> "2001:db8:1::/48", table_id |-> 254,
                          present |-> FALSE, installed |-> FALSE, metric |-> 20,
                          nhg |-> <<>>],
                  in_buf_len |-> 512, ub |-> "fault"]
    /\ fpmBroker = [encap_src_addr |-> "2001:db8::1",
                    vrf_of_table |-> [t \in {100} |-> ""]]
    /\ fpmResults = <<>>
    /\ fpmEvent = "init"

\* zfpm_netlink_encode_route(cmd, dest, re, in_buf, in_buf_len); zebra does
\* not go on after an abort or a fault
FpmEncode ==
    /\ Len(fpmResults) < 2
    /\ \A k \in 1..Len(fpmResults) : fpmResults[k].outcome = "returned"
    /\ fpmResults' = Append(fpmResults,
                            zfpm_netlink_encode_route(fpmCall.cmd, fpmCall.re,
                                                      fpmCall.in_buf_len,
                                                      fpmBroker, fpmCall.ub))
    /\ fpmEvent' = "encode"
    /\ UNCHANGED <<fpmCall, fpmBroker>>

\* between two encodings the operator sets another encapsulation source
\* address, or the VRF of a table is created, deleted or renamed
FpmReconfigure ==
    /\ Len(fpmResults) = 1
    /\ fpmEvent = "encode"
    /\ fpmBroker' \in FpmBrokers
    /\ fpmBroker' # fpmBroker
    /\ fpmEvent' = "reconfigure"
    /\ UNCHANGED <<fpmCall, fpmResults>>

FpmStep == FpmEncode \/ FpmReconfigure

----------------------------------------------------------------------------
(* isisd: the adjacency hooks on any area, with SRv6 enabled in it or not   *)

\* an area with these chunks whose adjacencies of holders have an IPv6
\* link-local address, and an End.X SID if the area has a chunk; enabled is
\* area->srv6db.enabled
AreaOf(enabled, chunks, holders) ==
    LET db == [enabled |-> TRUE,
               srv6_locator_name |-> IF chunks = <<>> THEN NoName ELSE LocatorName,
               srv6_locator_chunks |-> chunks, srv6_sids |-> <<>>,
               srv6_endx_sids |-> <<>>]
        adjs == [a \in Adjs |->
                    [adj_state |-> "ISIS_ADJ_UP",
                     ll_ipv6_count |-> IF a \in holders THEN 1 ELSE 0,
                     ipv6_router |-> TRUE,
                     circ_type |-> IF a = "adj1" THEN "CIRCUIT_T_P2P"
                                   ELSE "CIRCUIT_T_BROADCAST",
                     adj_sids |-> <<>>, srv6_endx_sids |-> <<>>]]
        s0 == [db |-> db, adjs |-> adjs, log |-> <<>>]
        s1 == IF "adj1" \in holders
              THEN srv6_endx_sid_add(s0.db, s0.adjs, "adj1", LinkLocal["adj1"])
              ELSE s0
        s2 == IF "adj2" \in holders
              THEN srv6_endx_sid_add(s1.db, s1.adjs, "adj2", LinkLocal["adj2"])
              ELSE s1
    IN [db |-> [s2.db EXCEPT !.enabled = enabled], adjs |-> s2.adjs]

\* the areas the hooks run on
Areas ==
    {AreaOf(enabled, chunks, holders) :
        enabled \in BOOLEAN,
        chunks \in {<<>>, <<ChunkOf("c1", [addr |-> LocatorAddr, prefixlen |-> 48],
                                    16, 32, 16)>>},
        holders \in SUBSET Adjs}

IsisAreaInit ==
    /\ \E area \in Areas : srv6db = area.db /\ adjacencies = area.adjs
    /\ isisEvent = IsisEvent("init", NoName)
    /\ isisLog = <<>>

\* End.X SIDs of the area before no further address is reported
MaxEndX == 3

\* isis_adj_ip_enabled_hook run whenever an address of the family is
\* reported for the adjacency, whether it had one before or not
HookIpEnabled(adj, family, global) ==
    LET ll == family = "AF_INET6" /\ ~global
        adjs == IF ll THEN [adjacencies EXCEPT ![adj].ll_ipv6_count = 1]
                ELSE adjacencies
        r == srv6_adj_ip_enabled(srv6db, adjs, adj, family, global, LinkLocal[adj])
    IN /\ Len(srv6db.srv6_endx_sids) < MaxEndX
       /\ srv6db' = r.db
       /\ adjacencies' = r.adjs
       /\ isisLog' = r.log
       /\ isisEvent' = IsisEvent(IF ll THEN "adj_ip_enabled"
                                 ELSE "adj_ip_enabled_other", adj)

\* isis_adj_ip_disabled_hook run whenever the adjacency is found without an
\* address of the family
HookIpDisabled(adj, family, global) ==
    LET ll == family = "AF_INET6" /\ ~global
        adjs == IF ll THEN [adjacencies EXCEPT ![adj].ll_ipv6_count = 0]
                ELSE adjacencies
        r == srv6_adj_ip_disabled(srv6db, adjs, adj, family, global)
    IN /\ srv6db' = r.db
       /\ adjacencies' = r.adjs
       /\ isisLog' = r.log
       /\ isisEvent' = IsisEvent(IF ll THEN "adj_ip_disabled"
                                 ELSE "adj_ip_disabled_other", adj)

\* isis_srv6_area_term: list_delete runs the del callback of the chunk list
\* (srv6_locator_chunk_free) and of the SID list (isis_srv6_sid_free)
isis_srv6_area_term(db, adjs) ==
    LET torn == DelAll([db |-> db, adjs |-> adjs, log |-> <<>>], db.srv6_endx_sids)
    IN [db |-> [torn.db EXCEPT !.srv6_locator_chunks = <<>>, !.srv6_sids = <<>>],
        adjs |-> torn.adjs,
        log |-> torn.log \o FreeChunks(db.srv6_locator_chunks)
                \o [k \in 1..Len(db.srv6_sids) |->
                       IsisReq("free_sid", db.srv6_sids[k].value)]]

\* the area is deleted: isis_srv6_area_term(area)
IsisAreaTerm ==
    LET r == isis_srv6_area_term(srv6db, adjacencies)
    IN /\ srv6db' = r.db
       /\ adjacencies' = r.adjs
       /\ isisLog' = r.log
       /\ isisEvent' = IsisEvent("area_term", NoName)

\* the hooks isis_srv6_init registers, the release of the locator and the
\* end of the area, after which nothing runs on it
IsisAreaStep ==
    /\ isisEvent.type # "area_term"
    /\ \/ \E a \in Adjs, st \in AdjStates : AdjStateChange(a, st)
       \/ \E a \in Adjs, f \in Families, g \in BOOLEAN : HookIpEnabled(a, f, g)
       \/ \E a \in Adjs, f \in Families, g \in BOOLEAN : HookIpDisabled(a, f, g)
       \/ \E ret \in {0, -1} : IsisLocatorUnset(ret)
       \/ IsisAreaTerm

----------------------------------------------------------------------------
(* staticd: the nexthop-tracking registry (static_nht_hash) and the        *)
(* NEXTHOP_REGISTER / NEXTHOP_UNREGISTER messages sent for it              *)
(* (src/staticd/static_srv6.c)                                             *)

VARIABLES
    nexthops,        \* the static nexthops: type, address, VRF, SAFI of the
                     \* route, nh_registered
    static_nht_hash, \* the entries of the hash, by key
    nhtEvent,        \* the function that ran last, with its arguments
    nhtSent,         \* what that call handed to zclient_send_rnh
    nhtHist          \* per key: the last of the successful REGISTERs and of
                     \* the UNREGISTERs handed over, and whether the two have
                     \* alternated so far

nhtVars == <<nexthops, static_nht_hash, nhtEvent, nhtSent, nhtHist>>

NhNames == {"nh1", "nh2", "nh3", "nh4"}

\* the static nexthops of the model: two gateways that share one key, an
\* IPv6 gateway, and an interface nexthop that has no prefix to track
StaticNexthop(n) ==
    CASE n = "nh1" -> [type |-> "STATIC_IPV4_GATEWAY", addr |-> "192.0.2.1",
                       nh_vrf_id |-> 0, safi |-> "SAFI_UNICAST"]
      [] n = "nh2" -> [type |-> "STATIC_IPV4_GATEWAY_IFNAME", addr |-> "192.0.2.1",
                       nh_vrf_id |-> 0, safi |-> "SAFI_UNICAST"]
      [] n = "nh3" -> [type |-> "STATIC_IPV6_GATEWAY", addr |-> "2001:db8::1",
                       nh_vrf_id |-> 0, safi |-> "SAFI_UNICAST"]
      [] OTHER -> [type |-> "STATIC_IFNAME", addr |-> NoName,
                   nh_vrf_id |-> 0, safi |-> "SAFI_UNICAST"]

NoPrefix == [family |-> "AF_UNSPEC", prefixlen |-> 0, addr |-> NoName]

\* static_zebra_nht_get_prefix: the prefix written to *p; the function
\* returns false exactly when the family is AF_UNSPEC
static_zebra_nht_get_prefix(nh) ==
    IF nh.type \in {"STATIC_IFNAME", "STATIC_BLACKHOLE"} THEN NoPrefix
    ELSE IF nh.type \in {"STATIC_IPV4_GATEWAY", "STATIC_IPV4_GATEWAY_IFNAME"}
    THEN [family |-> "AF_INET", prefixlen |-> 32, addr |-> nh.addr]
    ELSE [family |-> "AF_INET6", prefixlen |-> 128, addr |-> nh.addr]

\* the lookup static_zebra_nht_register fills in for a nexthop
NhtKey(nh) ==
    [nh |-> static_zebra_nht_get_prefix(nh), nh_vrf_id |-> nh.nh_vrf_id,
     safi |-> nh.safi]

NhtKeys == {NhtKey(StaticNexthop(n)) : n \in {"nh1", "nh2", "nh3"}}

\* static_nht_hash_getref that takes a reference only on a new entry
static_nht_hash_getref_new(hash, ref) ==
    IF ref \in DOMAIN hash THEN hash
    ELSE [k \in DOMAIN hash \cup {ref} |->
            IF k = ref THEN [refcount |-> 1, nh_num |-> 0, registered |-> FALSE]
            ELSE hash[k]]

\* static_nht_hash_getref: the hash after the call
static_nht_hash_getref(hash, ref) ==
    LET added == [k \in DOMAIN hash \cup {ref} |->
                    IF k \in DOMAIN hash THEN hash[k]
                    ELSE [refcount |-> 0, nh_num |-> 0, registered |-> FALSE]]
    IN [added EXCEPT ![ref].refcount = @ + 1]

\* static_nht_hash_decref: the hash after the call, and the value returned.
\* refcount is a uint32_t that counts the nexthops holding the entry, four at
\* most here, and an entry in the hash has at least one
static_nht_hash_decref(hash, key) ==
    LET count == hash[key].refcount - 1
    IN IF count > 0
       THEN [hash |-> [hash EXCEPT ![key].refcount = count], ret |-> TRUE]
       ELSE [hash |-> [k \in DOMAIN hash \ {key} |-> hash[k]], ret |-> FALSE]

\* an entry as XCALLOC leaves it
NoEntry == [refcount |-> 0, nh_num |-> 0, registered |-> FALSE]

Rnh(cmd, key, ok) == [cmd |-> cmd, key |-> key, ok |-> ok]

NhtQuiet(nhs, hash) == [nhs |-> nhs, hash |-> hash, out |-> <<>>]

\* static_zebra_nht_register with the UNREGISTER sent whenever the last
\* reference goes, whether zebra had the registration or not
static_zebra_nht_register_always(nhs, hash, n, reg, ok) ==
    LET key == NhtKey(nhs[n])
        h1 == IF nhs[n].nh_registered THEN hash
              ELSE static_nht_hash_getref(hash, key)
        nhs1 == [nhs EXCEPT ![n].nh_registered = reg]
    IN IF key.nh.family = "AF_UNSPEC" THEN NhtQuiet(nhs, hash)
       ELSE IF ~nhs[n].nh_registered /\ ~reg THEN NhtQuiet(nhs, hash)
       ELSE IF reg
       THEN IF h1[key].nh_num # 0 \/ h1[key].registered THEN NhtQuiet(nhs1, h1)
            ELSE [nhs |-> nhs1,
                  hash |-> IF ok THEN [h1 EXCEPT ![key].registered = TRUE] ELSE h1,
                  out |-> <<Rnh("ZEBRA_NEXTHOP_REGISTER", key, ok)>>]
       ELSE LET d == static_nht_hash_decref(h1, key)
            IN IF d.ret THEN NhtQuiet(nhs1, d.hash)
               ELSE [nhs |-> nhs1, hash |-> d.hash,
                     out |-> <<Rnh("ZEBRA_NEXTHOP_UNREGISTER", key, ok)>>]

\* static_zebra_nht_register(nh, reg); ok is the outcome of zclient_send_rnh.
\* A registered nexthop owns a reference, so its entry is in the hash (the
\* assertf of line 692); the refresh through static_nht_update is left to
\* the route machine
static_zebra_nht_register(nhs, hash, n, reg, ok) ==
    LET key == NhtKey(nhs[n])
        h1 == IF nhs[n].nh_registered THEN hash
              ELSE static_nht_hash_getref(hash, key)
        nhs1 == [nhs EXCEPT ![n].nh_registered = reg]
    IN IF key.nh.family = "AF_UNSPEC" THEN NhtQuiet(nhs, hash)
       ELSE IF ~nhs[n].nh_registered /\ ~reg THEN NhtQuiet(nhs, hash)
       ELSE IF reg
       THEN IF h1[key].nh_num # 0 \/ h1[key].registered THEN NhtQuiet(nhs1, h1)
            ELSE [nhs |-> nhs1,
                  hash |-> IF ok THEN [h1 EXCEPT ![key].registered = TRUE] ELSE h1,
                  out |-> <<Rnh("ZEBRA_NEXTHOP_REGISTER", key, ok)>>]
       ELSE LET was_zebra_registered == h1[key].registered
                d == static_nht_hash_decref(h1, key)
            IN IF d.ret \/ ~was_zebra_registered THEN NhtQuiet(nhs1, d.hash)
               ELSE [nhs |-> nhs1, hash |-> d.hash,
                     out |-> <<Rnh("ZEBRA_NEXTHOP_UNREGISTER", key, ok)>>]

\* static_zebra_nexthop_update: the registry part, nhtd->nh_num is a uint8_t
static_zebra_nexthop_update(hash, key, nexthop_num) ==
    IF key \in DOMAIN hash THEN [hash EXCEPT ![key].nh_num = U8(nexthop_num)]
    ELSE hash

\* the history of a key after message m
NhtRecordMsg(h, m) ==
    IF m.cmd = "ZEBRA_NEXTHOP_REGISTER"
    THEN IF m.ok
         THEN [h EXCEPT ![m.key] = [last |-> "REGISTER",
                                    ok |-> @.ok /\ @.last # "REGISTER"]]
         ELSE h
    ELSE [h EXCEPT ![m.key] = [last |-> "UNREGISTER",
                               ok |-> @.ok /\ @.last = "REGISTER"]]

NhtRecord(h, out) == IF out = <<>> THEN h ELSE NhtRecordMsg(h, out[1])

NhtCall(fn, nh, arg) == [fn |-> fn, nh |-> nh, arg |-> arg]

\* staticd starts with an empty hash and no nexthop registered
NhtInit ==
    /\ nexthops = [n \in NhNames |->
                     [type |-> StaticNexthop(n).type, addr |-> StaticNexthop(n).addr,
                      nh_vrf_id |-> StaticNexthop(n).nh_vrf_id,
                      safi |-> StaticNexthop(n).safi, nh_registered |-> FALSE]]
    /\ static_nht_hash = [k \in {} |-> NoEntry]
    /\ nhtEvent = NhtCall("init", NoName, 0)
    /\ nhtSent = <<>>
    /\ nhtHist = [k \in NhtKeys |-> [last |-> "none", ok |-> TRUE]]

\* a call of static_zebra_nht_register(nh, reg)
NhtRegister(n, reg, ok) ==
    LET r == static_zebra_nht_register(nexthops, static_nht_hash, n, reg, ok)
    IN /\ nexthops' = r.nhs
       /\ static_nht_hash' = r.hash
       /\ nhtSent' = r.out
       /\ nhtHist' = NhtRecord(nhtHist, r.out)
       /\ nhtEvent' = NhtCall("static_zebra_nht_register", n, IF reg THEN 1 ELSE 0)

\* zebra reports nexthop_num nexthops for the prefix of nexthop n
NhtNexthopUpdate(n, nexthop_num) ==
    /\ static_nht_hash' = static_zebra_nexthop_update(static_nht_hash,
                                                      NhtKey(nexthops[n]), nexthop_num)
    /\ nhtSent' = <<>>
    /\ nhtEvent' = NhtCall("static_zebra_nexthop_update", n, nexthop_num)
    /\ UNCHANGED <<nexthops, nhtHist>>

NhtStep ==
    \/ \E n \in NhNames, reg \in BOOLEAN, ok \in BOOLEAN : NhtRegister(n, reg, ok)
    \/ \E n \in NhNames, num \in {0, 1, 256} : NhtNexthopUpdate(n, num)

----------------------------------------------------------------------------
(* Specifications *)

vars ==
    <<staticVars, isisVars, zebraVars, sidCallVars, isisCallVars, routeVars,
      fpmVars, nhtVars>>

\* the state of every component before its first step
SidCallIdle ==
    /\ sidCall = [sid |-> srv6_sid_alloc("fc00::1", BEHAVIOR_UNSPEC), ifs |-> {},
                  vr |-> [n \in VrfNames |-> IF n = DefaultVrf THEN "active"
                                             ELSE "absent"],
                  ok |-> TRUE]
    /\ sidResult = NoResult

Init ==
    /\ StaticInit /\ IsisInit /\ ZebraInit
    /\ SidCallIdle /\ IsisCallIdle /\ RouteInit /\ FpmIdle /\ NhtInit

\* staticd
Next ==
    Step(FALSE) /\ UNCHANGED <<isisVars, zebraVars, sidCallVars,
                               isisCallVars, routeVars, fpmVars,
                               nhtVars>>
Spec == Init /\ [][Next]_vars

\* staticd with the per-address message history recorded
NextHist ==
    Step(TRUE) /\ UNCHANGED <<isisVars, zebraVars, sidCallVars,
                              isisCallVars, routeVars, fpmVars,
                              nhtVars>>
SpecHist == Init /\ [][NextHist]_vars

\* isisd
NextIsis ==
    IsisStep /\ UNCHANGED <<staticVars, zebraVars, sidCallVars,
                            isisCallVars, routeVars, fpmVars,
                            nhtVars>>
SpecIsis == Init /\ [][NextIsis]_vars

\* the locator node of zebra's vty
NextZebra ==
    ZebraStep /\ UNCHANGED <<staticVars, isisVars, sidCallVars,
                             isisCallVars, routeVars, fpmVars,
                             nhtVars>>
SpecZebra == Init /\ [][NextZebra]_vars

\* one call of a zebra-facing function of staticd, on any descriptor
InitSidCall ==
    /\ StaticInit /\ IsisInit /\ ZebraInit
    /\ SidCallInit /\ IsisCallIdle /\ RouteInit /\ FpmIdle /\ NhtInit
NextSidCall ==
    SidCallStep /\ UNCHANGED <<staticVars, isisVars, zebraVars,
                               isisCallVars, routeVars, fpmVars,
                               nhtVars>>
SpecSidCall == InitSidCall /\ [][NextSidCall]_vars

\* one call of transpose_sid or isis_srv6_sid_alloc of isisd
InitIsisCall ==
    /\ StaticInit /\ IsisInit /\ ZebraInit
    /\ SidCallIdle /\ IsisCallInit /\ RouteInit /\ FpmIdle /\ NhtInit
NextIsisCall ==
    IsisCallStep /\ UNCHANGED <<staticVars, isisVars, zebraVars,
                                sidCallVars, routeVars, fpmVars,
                                nhtVars>>
SpecIsisCall == InitIsisCall /\ [][NextIsisCall]_vars

\* the static routes of staticd and zebra's notifications about them
NextRoute ==
    RouteStep /\ UNCHANGED <<staticVars, isisVars, zebraVars, sidCallVars,
                             isisCallVars, fpmVars, nhtVars>>
SpecRoute == Init /\ [][NextRoute]_vars

\* two encodings of a route for the FPM
InitFpm ==
    /\ StaticInit /\ IsisInit /\ ZebraInit
    /\ SidCallIdle /\ IsisCallIdle /\ RouteInit /\ FpmInit /\ NhtInit
NextFpm ==
    FpmStep /\ UNCHANGED <<staticVars, isisVars, zebraVars, sidCallVars,
                           isisCallVars, routeVars, nhtVars>>
SpecFpm == InitFpm /\ [][NextFpm]_vars

\* the events of isisd on any area, in any order
InitIsisArea ==
    /\ StaticInit /\ IsisAreaInit /\ ZebraInit
    /\ SidCallIdle /\ IsisCallIdle /\ RouteInit /\ FpmIdle /\ NhtInit
NextIsisArea ==
    IsisAreaStep /\ UNCHANGED <<staticVars, zebraVars, sidCallVars,
                               isisCallVars, routeVars, fpmVars,
                               nhtVars>>
SpecIsisArea == InitIsisArea /\ [][NextIsisArea]_vars

\* the nexthop-tracking registry of staticd
NextNht ==
    NhtStep /\ UNCHANGED <<staticVars, isisVars, zebraVars, sidCallVars,
                           isisCallVars, routeVars, fpmVars>>
SpecNht == Init /\ [][NextNht]_vars

----------------------------------------------------------------------------
(* Properties of the static SID machine *)

Present(sids, addr) == \E i \in 1..Len(sids) : sids[i].addr = addr

\* the descriptor of addr (the first one, should there be several)
Desc(sids, addr) ==
    sids[CHOOSE i \in 1..Len(sids) :
            /\ sids[i].addr = addr
            /\ \A j \in 1..(i - 1) : sids[j].addr # addr]

\* positions in out of the messages of one type submitted for addr
MsgsFor(out, addr, type) ==
    {k \in 1..Len(out) : out[k].addr = addr /\ out[k].type = type}

NonLoopback(ifs) == ifs \ {"lo"}

\* C1: for every static SID address the ADD_LOCALSID and DEL_LOCALSID
\* messages submitted so far strictly alternate, beginning with an ADD:
\* never two ADDs without a DEL between them, and every DEL follows an ADD
\* that no earlier DEL has matched.
C1_StrictAlternation == \A a \in Addrs : hist[a].ok

\* C2: when a static SID has just been deleted, the number of ADD_LOCALSID
\* messages submitted for its address equals the number of DEL_LOCALSID
\* messages submitted for it.
C2_AddsEqualDelsAfterDelete ==
    \A a \in Addrs : lastEvent = Event("sid_delete", a) => hist[a].bal = 0

\* C3: a handler that submitted an ADD_LOCALSID whose send failed leaves the
\* SID VALID with SENT_TO_ZEBRA clear.
C3_FailedAddLeavesSentClear ==
    \A k \in 1..Len(msgs) :
        (msgs[k].type = "ADD" /\ ~msgs[k].ok)
            => /\ Present(srv6_sids, msgs[k].addr)
               /\ Desc(srv6_sids, msgs[k].addr).valid
               /\ ~Desc(srv6_sids, msgs[k].addr).sent

\* C4: a handler whose last message for a SID is a DEL_LOCALSID whose send
\* failed, and that keeps the SID in the table, leaves SENT_TO_ZEBRA set.
C4_FailedDelLeavesSentSet ==
    \A k \in 1..Len(msgs) :
        (/\ msgs[k].type = "DEL"
         /\ ~msgs[k].ok
         /\ \A j \in (k + 1)..Len(msgs) : msgs[j].addr # msgs[k].addr
         /\ Present(srv6_sids, msgs[k].addr))
            => Desc(srv6_sids, msgs[k].addr).sent

VrfComesUp(v) == vrfs[v] # "active" /\ vrfs'[v] = "active"

\* every ADD_LOCALSID of the step is for a SID whose VRF, if it has one, is
\* ACTIVE when the step ends
NoAddWhileVrfDown ==
    \A k \in 1..Len(msgs') :
        (msgs'[k].type = "ADD" /\ Present(srv6_sids', msgs'[k].addr))
            => LET d == Desc(srv6_sids', msgs'[k].addr)
               IN d.vrf_name # NoName => vrfs'[d.vrf_name] = "active"

\* the step submits exactly one ADD_LOCALSID for SID s of VRF v, with the
\* action code of its behavior and the table id of the VRF
OneAddOnVrfUp(s, v) ==
    /\ Cardinality(MsgsFor(msgs', s.addr, "ADD")) = 1
    /\ \A k \in MsgsFor(msgs', s.addr, "ADD") :
        /\ msgs'[k].action = Seg6LocalAction(s.behavior)
        /\ s.behavior = BEHAVIOR_END_DT4 => msgs'[k].action = 8
        /\ msgs'[k].table = TableIdOf[v]

\* C6 as stated: a VALID static SID that carries a VRF attribute causes no
\* ADD_LOCALSID while that VRF is absent or not ACTIVE; when the VRF is
\* enabled, exactly one ADD_LOCALSID is submitted for the SID, with the
\* behavior's action code (8 for END_DT4) and context.table equal to the
\* VRF's table id.
C6_AddOnVrfEnable ==
    [][/\ NoAddWhileVrfDown
       /\ \A v \in DynVrfs : VrfComesUp(v) =>
            \A i \in 1..Len(srv6_sids) :
                (srv6_sids[i].valid /\ srv6_sids[i].vrf_name = v)
                    => OneAddOnVrfUp(srv6_sids[i], v)]_vars

\* C6 amended: the same, for a SID whose interface attribute, if it has
\* one, names an interface that exists when the VRF is enabled.
C6_AddOnVrfEnableIfInterfaceKnown ==
    [][/\ NoAddWhileVrfDown
       /\ \A v \in DynVrfs : VrfComesUp(v) =>
            \A i \in 1..Len(srv6_sids) :
                (/\ srv6_sids[i].valid
                 /\ srv6_sids[i].vrf_name = v
                 /\ srv6_sids[i].ifname # NoName => srv6_sids[i].ifname \in ifps)
                    => OneAddOnVrfUp(srv6_sids[i], v)]_vars

\* VRF red has just been enabled and the END_DT4 SID of that VRF was
\* submitted with action 8 and table 100
C6_Witness ==
    /\ lastEvent = Event("vrf_enable", "red")
    /\ Present(srv6_sids, "fc00::2")
    /\ Desc(srv6_sids, "fc00::2").vrf_name = "red"
    /\ Desc(srv6_sids, "fc00::2").sent
    /\ Len(msgs) = 1
    /\ msgs[1].type = "ADD" /\ msgs[1].addr = "fc00::2"
    /\ msgs[1].action = 8 /\ msgs[1].table = 100

C8_VrfDisableWithdraws ==
    [][\A v \in DynVrfs : (vrfs[v] = "active" /\ vrfs'[v] # "active") =>
        /\ Len(srv6_sids') = Len(srv6_sids)
        /\ \A i \in 1..Len(srv6_sids) :
            IF srv6_sids[i].vrf_name = v
            THEN /\ srv6_sids'[i] = [srv6_sids[i] EXCEPT !.sent = FALSE]
                 /\ srv6_sids[i].sent
                        => MsgsFor(msgs', srv6_sids[i].addr, "DEL") # {}
                 /\ MsgsFor(msgs', srv6_sids[i].addr, "ADD") = {}
            ELSE /\ srv6_sids'[i] = srv6_sids[i]
                 /\ \A k \in 1..Len(msgs') : msgs'[k].addr # srv6_sids[i].addr]_vars

\* VRF red has just been disabled: the installed SID of red was withdrawn,
\* the installed SID without a VRF is still installed
C8_Witness ==
    /\ lastEvent = Event("vrf_disable", "red")
    /\ Present(srv6_sids, "fc00::2") /\ Present(srv6_sids, "fc00::1")
    /\ Desc(srv6_sids, "fc00::2").vrf_name = "red"
    /\ Desc(srv6_sids, "fc00::2").ifname = NoName
    /\ Desc(srv6_sids, "fc00::2").valid
    /\ ~Desc(srv6_sids, "fc00::2").sent
    /\ Desc(srv6_sids, "fc00::1").vrf_name = NoName
    /\ Desc(srv6_sids, "fc00::1").sent
    /\ Len(msgs) = 1
    /\ msgs[1].type = "DEL" /\ msgs[1].addr = "fc00::2"

\* C9: when an interface has just gone down, no static SID that references
\* it through its interface attribute is still SENT_TO_ZEBRA.
C9_InterfaceDownWithdraws ==
    \A n \in IfNames : lastEvent = Event("ifp_down", n) =>
        \A i \in 1..Len(srv6_sids) :
            srv6_sids[i].ifname = n => ~srv6_sids[i].sent

\* the interface and the VRF that s needs are there: an ADD_LOCALSID can be built
Installable(s) ==
    static_zebra_srv6_sid_add([s EXCEPT !.sent = FALSE], ifps, vrfs, TRUE).out # <<>>

\* C10: when the broker session has just dropped, no static SID is
\* SENT_TO_ZEBRA; when it has just been established, an ADD_LOCALSID was
\* submitted for every VALID static SID whose interface and VRF are there.
C10_DisconnectClearsReconnectResends ==
    /\ lastEvent.type = "zebra_disconnected" =>
        \A i \in 1..Len(srv6_sids) : ~srv6_sids[i].sent
    /\ lastEvent.type = "zebra_connected" =>
        \A i \in 1..Len(srv6_sids) :
            (srv6_sids[i].valid /\ Installable(srv6_sids[i]))
                => MsgsFor(msgs, srv6_sids[i].addr, "ADD") # {}

----------------------------------------------------------------------------
(* isisd: SID allocation and End.X SIDs *)

\* the addresses of the SIDs in the area's SID list and in its End.X list
AreaSidValues(db) ==
    [k \in 1..Len(db.srv6_sids) |-> db.srv6_sids[k].value]
    \o [k \in 1..Len(db.srv6_endx_sids) |-> db.srv6_endx_sids[k].sid.value]

\* C11: no two SIDs in the union of the area's End.X list and its SID list
\* share an address.
C11_NoTwoSidsShareAddress ==
    LET all == AreaSidValues(srv6db)
    IN \A i, j \in 1..Len(all) : i # j => all[i] # all[j]

\* the address of the SID with this index in the chunk's locator
SidAt(chunk, index) ==
    transpose_sid(chunk.prefix.addr, index,
                  chunk.block_bits_length + chunk.node_bits_length,
                  chunk.function_bits_length)

\* the smallest positive index whose address no SID of the area has; one of
\* the first Len + 1 indexes is free
SmallestFree(db, chunk) ==
    LET all == AreaSidValues(db)
        used == {all[k] : k \in 1..Len(all)}
    IN Min({i \in 1..(Len(all) + 1) : SidAt(chunk, i) \notin used})

\* an automatic allocation has just succeeded: an End.X SID was installed, or
\* a SID was allocated with index 0
AutoAllocated ==
    /\ isisLog' # <<>>
    /\ \/ isisEvent'.type = "adj_ip_enabled" /\ isisLog'[1].type = "endx_sid_install"
       \/ isisEvent' = IsisEvent("sid_alloc", "auto") /\ isisLog'[1].type = "alloc"

\* C12: an automatic allocation (index 0) returns the SID with the smallest
\* positive index whose address collides with no SID of the area's SID list
\* or End.X list.
C12_AutoReturnsSmallestFreeIndex ==
    [][AutoAllocated =>
        isisLog'[1].value
            = SidAt(Head(srv6db.srv6_locator_chunks),
                    SmallestFree(srv6db, Head(srv6db.srv6_locator_chunks)))]_vars

\* C13: an allocation with an index other than 0, which the function bits of
\* the locator can hold, fails only if the address of that index is in use by
\* a SID of the area's SID list or End.X list (the failed allocation left both
\* lists as they were).
C13_IndexAllocationFailsOnlyIfInUse ==
    (/\ isisEvent = IsisEvent("sid_alloc", "index")
     /\ isisLog = <<IsisReq("alloc_failed", isisLog[1].value)>>
     /\ isisLog[1].value
            < 2 ^ Head(srv6db.srv6_locator_chunks).function_bits_length)
        => \E k \in 1..Len(AreaSidValues(srv6db)) :
              AreaSidValues(srv6db)[k]
                  = SidAt(Head(srv6db.srv6_locator_chunks), isisLog[1].value)

\* the locator of spec 8, scenario 4: 2001:db8::/48, block 32, node 16,
\* function 16
Scenario4Locator(db) ==
    /\ db.srv6_locator_chunks # <<>>
    /\ Head(db.srv6_locator_chunks).prefix = [addr |-> LocatorAddr, prefixlen |-> 48]
    /\ Head(db.srv6_locator_chunks).block_bits_length = 32
    /\ Head(db.srv6_locator_chunks).node_bits_length = 16
    /\ Head(db.srv6_locator_chunks).function_bits_length = 16

\* adjacency a has just got its first IPv6 link-local address
ComesUpIpv6(a) ==
    /\ isisEvent' = IsisEvent("adj_ip_enabled", a)
    /\ adjacencies[a].ll_ipv6_count = 0
    /\ adjacencies'[a].ll_ipv6_count = 1

\* after the step, adjacency a has exactly one End.X SID, with this address,
\* which is also the only SID of the area and was installed
OneEndXSid(a, value) ==
    /\ Len(adjacencies'[a].srv6_endx_sids) = 1
    /\ adjacencies'[a].srv6_endx_sids[1].sid.value = value
    /\ adjacencies'[a].srv6_endx_sids[1].sid.behavior = "END_X"
    /\ adjacencies'[a].srv6_endx_sids[1].adj = a
    /\ srv6db'.srv6_endx_sids = adjacencies'[a].srv6_endx_sids
    /\ isisLog' = <<IsisReq("endx_sid_install", value)>>

\* C14 as stated: with locator 2001:db8::/48 (block 32, node 16, function 16)
\* and no other SID in the area, an adjacency that comes up IPv6-enabled gets
\* exactly one End.X SID, of index 1, with address 2001:db8:0:0:1::.
C14_EndXAddressAsStated ==
    [][\A a \in Adjs :
        (ComesUpIpv6(a) /\ Scenario4Locator(srv6db) /\ AreaSidValues(srv6db) = <<>>)
            => OneEndXSid(a, In6(<<8193, 3512, 0, 0, 1, 0, 0, 0>>))]_vars

\* C14: with locator 2001:db8::/48 (block 32, node 16, function 16) and no
\* other SID in the area, an adjacency that comes up IPv6-enabled gets exactly
\* one End.X SID, of index 1, whose address carries the index in the 16 bits
\* that follow block and node: 2001:db8:0:1::.
C14_EndXAddressAtIndexOne ==
    [][\A a \in Adjs :
        (ComesUpIpv6(a) /\ Scenario4Locator(srv6db) /\ AreaSidValues(srv6db) = <<>>)
            => /\ OneEndXSid(a, In6(<<8193, 3512, 0, 1, 0, 0, 0, 0>>))
               /\ SidAt(Head(srv6db.srv6_locator_chunks), 1)
                    = In6(<<8193, 3512, 0, 1, 0, 0, 0, 0>>)]_vars

C14_Witness ==
    /\ isisEvent.type = "adj_ip_enabled"
    /\ Scenario4Locator(srv6db)
    /\ srv6db.srv6_sids = <<>>
    /\ Len(srv6db.srv6_endx_sids) = 1
    /\ srv6db.srv6_endx_sids[1].adj = isisEvent.arg
    /\ srv6db.srv6_endx_sids[1].sid.value = In6(<<8193, 3512, 0, 1, 0, 0, 0, 0>>)
    /\ isisLog = <<IsisReq("endx_sid_install", In6(<<8193, 3512, 0, 1, 0, 0, 0, 0>>))>>

\* C15: when an adjacency has just changed to a state other than UP in an
\* SRv6-enabled area, no End.X SID references it: its End.X list is empty and
\* the area's End.X list holds no SID of the adjacency.
C15_AdjacencyDownTearsDown ==
    \A a \in Adjs :
        (/\ isisEvent = IsisEvent("adj_state_change", a)
         /\ adjacencies[a].adj_state # "ISIS_ADJ_UP"
         /\ srv6db.enabled)
            => /\ adjacencies[a].srv6_endx_sids = <<>>
               /\ \A k \in 1..Len(srv6db.srv6_endx_sids) :
                      srv6db.srv6_endx_sids[k].adj # a

\* adjacency a has just lost its last IPv6 link-local address
LosesIpv6(a) ==
    /\ isisEvent' = IsisEvent("adj_ip_disabled", a)
    /\ adjacencies[a].ll_ipv6_count > 0
    /\ adjacencies'[a].ll_ipv6_count = 0

\* the requests of one teardown for each SID of the list, in list order
Teardowns(list) ==
    [k \in 1..(2 * Len(list)) |->
        IF k % 2 = 1 THEN IsisReq("endx_sid_uninstall", list[(k + 1) \div 2].sid.value)
        ELSE IsisReq("free_sra", list[k \div 2].sid.value)]

\* C16: when an adjacency loses its IPv6 link-local addresses in an
\* SRv6-enabled area, every End.X SID of the adjacency is torn down: one
\* uninstall request and one free per SID, the SID leaves the area's End.X
\* list, and the adjacency's End.X list is empty afterwards.
C16_Ipv6DisabledTearsDown ==
    [][\A a \in Adjs :
        (LosesIpv6(a) /\ srv6db.enabled)
            => /\ isisLog' = Teardowns(adjacencies[a].srv6_endx_sids)
               /\ adjacencies'[a].srv6_endx_sids = <<>>
               /\ srv6db'.srv6_endx_sids
                    = SelectSeq(srv6db.srv6_endx_sids, LAMBDA e : e.adj # a)
               /\ \A k \in 1..Len(adjacencies[a].srv6_endx_sids) :
                      adjacencies[a].srv6_endx_sids[k].id \notin LiveSra(srv6db')]_vars

C16_Witness ==
    /\ isisEvent = IsisEvent("adj_ip_disabled", "adj1")
    /\ Len(isisLog) = 2
    /\ isisLog[1].type = "endx_sid_uninstall"
    /\ isisLog[2].type = "free_sra"
    /\ adjacencies["adj1"].srv6_endx_sids = <<>>
    /\ Len(srv6db.srv6_endx_sids) = 1
    /\ srv6db.srv6_endx_sids[1].adj = "adj2"

\* C17: when the locator has just been unset, every teardown of an End.X SID
\* precedes the release of the locator's chunk and the deletion of the chunk.
C17_EndXTornDownBeforeChunkRelease ==
    isisEvent = IsisEvent("locator_unset", "0") =>
        \A i, j \in 1..Len(isisLog) :
            (/\ isisLog[i].type \in {"endx_sid_uninstall", "free_sra"}
             /\ isisLog[j].type \in {"release_locator_chunk", "chunk_free"})
                => i < j

\* bit t of an address, bit 0 being the most significant bit of s6_addr[0]
Bit(addr, t) == (addr[(t \div 8) + 1] \div (2 ^ (7 - (t % 8)))) % 2

\* the address agrees with the prefix in its leading prefixlen bits
Covered(addr, prefix) ==
    \A t \in 0..(prefix.prefixlen - 1) : Bit(addr, t) = Bit(prefix.addr, t)

\* the chunk with this identity
ChunkById(id) == CHOOSE c \in IsisChunks : c.id = id

\* C18: every End.X SID of the area, and every End.X SID address for which an
\* install was requested, is covered by the prefix of the chunk it was
\* allocated from.
C18_EndXCoveredByChunk ==
    /\ \A k \in 1..Len(srv6db.srv6_endx_sids) :
          Covered(srv6db.srv6_endx_sids[k].sid.value,
                  ChunkById(srv6db.srv6_endx_sids[k].sid.locator).prefix)
    /\ \A k \in 1..Len(isisLog) :
          isisLog[k].type = "endx_sid_install"
              => Covered(isisLog[k].value, Head(srv6db.srv6_locator_chunks).prefix)

C18_Witness ==
    /\ Len(srv6db.srv6_endx_sids) = 2
    /\ srv6db.srv6_endx_sids[1].sid.locator = "c3"
    /\ srv6db.srv6_endx_sids[2].sid.value # Head(srv6db.srv6_locator_chunks).prefix.addr
    /\ isisLog # <<>>
    /\ isisLog[1].type = "endx_sid_install"
    /\ srv6db.srv6_sids # <<>>

\* the chunk has an index in 1 .. 2^func_len - 1 whose address no SID of the
\* area has (one of the first Len + 1 indexes, if any)
HasFreeIndex(db, chunk) ==
    LET all == AreaSidValues(db)
        used == {all[k] : k \in 1..Len(all)}
        last == (2 ^ chunk.function_bits_length) - 1
    IN \E i \in 1..Min({Len(all) + 1, last}) : SidAt(chunk, i) \notin used

----------------------------------------------------------------------------
(* zebra: the prefix command of the locator node *)

\* C19: a locator whose prefix command has just been accepted has
\* block_len + node_len = prefix length, function_len >= 1 and
\* block_len + node_len + function_len + argument_len <= 128, whichever of
\* the options block-len, node-len and func-bits were given.
C19_AcceptedLocatorIsWellFormed ==
    zebraCmd.ret = "CMD_SUCCESS" =>
        /\ locator.block_bits_length + locator.node_bits_length
              = locator.prefix.prefixlen
        /\ locator.function_bits_length >= 1
        /\ locator.block_bits_length + locator.node_bits_length
              + locator.function_bits_length + locator.argument_bits_length <= 128

\* C20: a prefix command that fails leaves the locator as it was: prefix,
\* bit lengths and chunk list.
C20_FailedCommandChangesNothing ==
    [][zebraCmd'.ret = "CMD_WARNING_CONFIG_FAILED" => locator' = locator]_vars

----------------------------------------------------------------------------
(* staticd: the zebra-facing functions, call by call *)

\* the flags static_zebra_srv6_sid_update found: those of the descriptor it
\* was called on, VALID being what mark_srv6_sid_as_valid had just written
FlagsAtUpdate ==
    IF sidResult.fn = "mark_srv6_sid_as_valid"
    THEN [valid |-> sidResult.sid.valid, sent |-> sidCall.sid.sent]
    ELSE [valid |-> sidCall.sid.valid, sent |-> sidCall.sid.sent]

\* C24: static_zebra_srv6_sid_update sends ADD_LOCALSID only when the SID is
\* VALID and not SENT, DEL_LOCALSID only when it is not VALID and SENT, and
\* with the two other flag combinations sends nothing and leaves both flags
\* as they are.
C24_UpdateIsEdgeTriggered ==
    sidResult.fn \in {"static_zebra_srv6_sid_update", "mark_srv6_sid_as_valid"} =>
        /\ \A k \in 1..Len(sidResult.out) :
              /\ sidResult.out[k].type = "ADD"
                    => FlagsAtUpdate.valid /\ ~FlagsAtUpdate.sent
              /\ sidResult.out[k].type = "DEL"
                    => ~FlagsAtUpdate.valid /\ FlagsAtUpdate.sent
        /\ FlagsAtUpdate.valid = FlagsAtUpdate.sent
              => /\ sidResult.out = <<>>
                 /\ sidResult.sid.valid = FlagsAtUpdate.valid
                 /\ sidResult.sid.sent = FlagsAtUpdate.sent

\* the update of a VALID and SENT SID, whose interface and VRF are there,
\* sent nothing
C24_Witness ==
    /\ sidResult.fn = "static_zebra_srv6_sid_update"
    /\ sidCall.sid.valid /\ sidCall.sid.sent
    /\ sidCall.sid.ifname = "eth0" /\ "eth0" \in sidCall.ifs
    /\ sidCall.sid.vrf_name = "red" /\ sidCall.vr["red"] = "active"
    /\ sidResult.out = <<>>
    /\ sidResult.sid = sidCall.sid

\* every collaborator the SID references is live: the interface it names
\* exists, the VRF it names exists and is ACTIVE
Live(sid, ifs, vr) ==
    /\ sid.ifname # NoName => sid.ifname \in ifs
    /\ sid.vrf_name # NoName => vr[sid.vrf_name] = "active"

\* C25: a call sets SENT_TO_ZEBRA on a SID only if it submitted an
\* ADD_LOCALSID, and it submits one only when the interface and the VRF the
\* SID names are live; static_zebra_srv6_sid_add on a SID that names a
\* missing interface or VRF submits nothing and leaves SENT clear.
C25_SentOnlyWithLiveCollaborators ==
    sidResult.fn # "none" =>
        /\ (sidResult.sid.sent /\ ~sidCall.sid.sent)
              => /\ Len(sidResult.out) = 1
                 /\ sidResult.out[1].type = "ADD"
        /\ \A k \in 1..Len(sidResult.out) :
              sidResult.out[k].type = "ADD"
                  => Live(sidCall.sid, sidCall.ifs, sidCall.vr)
        /\ (/\ sidResult.fn = "static_zebra_srv6_sid_add"
            /\ ~Live(sidCall.sid, sidCall.ifs, sidCall.vr))
              => /\ sidResult.out = <<>>
                 /\ sidResult.sid = sidCall.sid

\* the SID names interface eth0, which does not exist: the attempt sent
\* nothing and SENT stayed clear
C25_Witness ==
    /\ sidResult.fn = "static_zebra_srv6_sid_add"
    /\ sidCall.sid.valid /\ ~sidCall.sid.sent
    /\ sidCall.sid.ifname = "eth0" /\ "eth0" \notin sidCall.ifs
    /\ "eth1" \in sidCall.ifs
    /\ sidResult.out = <<>>
    /\ ~sidResult.sid.sent

\* the outgoing interface by priority: the interface attribute, else the VRF
\* attribute's VRF, else the first non-loopback interface
OifByPriority(sid, ifs) ==
    IF sid.ifname # NoName THEN IfIndexOf[sid.ifname]
    ELSE IF sid.vrf_name # NoName THEN VrfIdOf[sid.vrf_name]
    ELSE IfIndexOf[FirstNonLoopback(ifs)]

\* C26: the outgoing interface of an ADD_LOCALSID is the index of the SID's
\* interface attribute if it has one, otherwise the identifier of the VRF of
\* its VRF attribute if it has one, otherwise the index of the first
\* non-loopback interface known; in particular a SID with both attributes is
\* sent with the interface's index.  (SIDs of the default VRF, whose
\* identifier is 0, are left aside.)
C26_OifByPriority ==
    \A k \in 1..Len(sidResult.out) :
        (sidResult.out[k].type = "ADD" /\ sidCall.sid.vrf_name # DefaultVrf)
            => sidResult.out[k].oif = OifByPriority(sidCall.sid, sidCall.ifs)

\* C27: an ADD_LOCALSID for a UN SID carries action END (1), for a UA SID
\* action END_X (2), each with the NEXT_CSID flavor operation, locator-block
\* length 32 and locator-node-function length 16; for every other behavior
\* the action code is the behavior's numeric code and no flavor is set.
C27_CompressedSidActionAndFlavor ==
    \A k \in 1..Len(sidResult.out) :
        sidResult.out[k].type = "ADD" =>
            /\ sidCall.sid.behavior = BEHAVIOR_UN
                  => /\ sidResult.out[k].action = 1
                     /\ sidResult.out[k].flv
                          = [op |-> "NEXT_CSID", lcblock_len |-> 32,
                             lcnode_func_len |-> 16]
            /\ sidCall.sid.behavior = BEHAVIOR_UA
                  => /\ sidResult.out[k].action = 2
                     /\ sidResult.out[k].flv
                          = [op |-> "NEXT_CSID", lcblock_len |-> 32,
                             lcnode_func_len |-> 16]
            /\ sidCall.sid.behavior \notin {BEHAVIOR_UN, BEHAVIOR_UA}
                  => /\ sidResult.out[k].action = sidCall.sid.behavior
                     /\ sidResult.out[k].flv.op = "none"

\* a UN SID was sent as END with the NEXT_CSID flavor
C27_Witness ==
    /\ sidResult.fn = "static_zebra_srv6_sid_update"
    /\ sidCall.sid.behavior = BEHAVIOR_UN
    /\ Len(sidResult.out) = 1
    /\ sidResult.out[1].type = "ADD"
    /\ sidResult.out[1].action = BEHAVIOR_END
    /\ sidResult.out[1].flv.op = "NEXT_CSID"

----------------------------------------------------------------------------
(* isisd: transpose_sid and isis_srv6_sid_alloc, call by call *)

\* bit n of index, bit 0 being the least significant
IndexBit(index, n) == IF n >= 31 THEN 0 ELSE (index \div (2 ^ n)) % 2

\* the bits of sid after transpose_sid(sid, index, offset, len) as the
\* specification states them (spec 4.6)
Transposed(out, sid, index, offset, len) ==
    \A t \in 0..127 :
        Bit(out, t) = IF offset <= t /\ t < offset + len
                      THEN IndexBit(index, len - 1 - (t - offset))
                      ELSE Bit(sid, t)

\* C28: for 0 <= offset <= offset + len <= 128, transpose_sid sets bit
\* offset + k of the address to bit len - 1 - k of index for every k in
\* [0, len) and leaves every other bit as it was; transposing index i and then
\* index j gives what transposing j alone gives.
C28_TransposeWritesIndexBits ==
    isisResult.fn = "transpose_sid" =>
        /\ Transposed(isisResult.first, isisCall.sid, isisCall.i,
                      isisCall.offset, isisCall.len)
        /\ isisResult.twice = isisResult.alone

\* C29: the automatic allocation searches the indexes 1 .. 2^func_len - 1,
\* the last one included: when every index below 2^func_len - 1 is in use
\* and that one is free, it is the index allocated; the allocation fails only
\* when all of them are in use.
C29_AutoSearchIncludesLastIndex ==
    isisResult.fn = "isis_srv6_sid_alloc" =>
        LET last == (2 ^ isisCall.func_len) - 1
        IN /\ (isisCall.used = 1..(last - 1)) =>
                  /\ isisResult.sid # NoSid
                  /\ isisResult.sid.value =
                         transpose_sid(LocatorAddr, last, 48, isisCall.func_len)
           /\ (isisResult.sid = NoSid) => (isisCall.used = 1..last)

----------------------------------------------------------------------------
(* staticd: route notifications *)

\* the state the specification gives a route after this outcome code
StateAfter(note) ==
    IF note \in {"ZAPI_ROUTE_FAIL_INSTALL", "ZAPI_ROUTE_BETTER_ADMIN_WON",
                 "ZAPI_ROUTE_REMOVED"}
    THEN "STATIC_NOT_INSTALLED" ELSE "STATIC_INSTALLED"

\* C23: on ROUTE_NOTIFY_OWNER the state of the route is set by the outcome
\* code: FAIL_INSTALL, BETTER_ADMIN_WON and REMOVED give NOT_INSTALLED,
\* INSTALLED and REMOVE_FAIL give INSTALLED; no other route changes and the
\* handler sends nothing to zebra, so a failed install is not sent again.
C23_NotifyOwnerSetsState ==
    [][\A p \in RoutePrefixes, note \in RouteNotes :
        (routeEvent' = RouteEvent("route_notify_owner", p, note)) =>
            /\ routes'[p].state = StateAfter(note)
            /\ \A q \in RoutePrefixes \ {p} : routes'[q] = routes[q]
            /\ routeMsgs' = <<>>]_vars

\* a route that was sent to zebra and installed has just been reported as
\* failed: it is NOT_INSTALLED and nothing was sent
C23_Witness ==
    /\ routeEvent = RouteEvent("route_notify_owner", "10.0.0.0/24",
                               "ZAPI_ROUTE_FAIL_INSTALL")
    /\ routes["10.0.0.0/24"].state = "STATIC_NOT_INSTALLED"
    /\ routes["10.0.1.0/24"].state = "STATIC_SENT_TO_ZEBRA"
    /\ routes["10.0.2.0/24"].state = "STATIC_INSTALLED"
    /\ routeMsgs = <<>>

----------------------------------------------------------------------------
(* zebra: the FPM route encoder *)

\* C21: the encoder returns 0 whenever the message would overflow the
\* caller's buffer: it never returns a positive length for a message from
\* which an attribute was left out for lack of space, and it never aborts (or
\* faults) on a buffer that is too small.
C21_OverflowReturnsZero ==
    \A k \in 1..Len(fpmResults) :
        /\ fpmResults[k].outcome = "returned"
        /\ fpmResults[k].dropped => fpmResults[k].ret = 0

\* C22: the encoder is a function of the route and the command alone: two
\* encodings of the same route with the same command into the same buffer
\* give the same result, whatever encapsulation source address and VRF table
\* the broker has at the time of each.
C22_EncoderIsPure ==
    Len(fpmResults) = 2 => fpmResults[1] = fpmResults[2]

----------------------------------------------------------------------------
(* isisd: adjacency events that add no End.X SID *)

AdjEvents ==
    {"adj_state_change", "adj_ip_enabled", "adj_ip_enabled_other",
     "adj_ip_disabled", "adj_ip_disabled_other"}

\* adjacency a has just changed to ISIS_ADJ_UP
BecomesUp(a) ==
    /\ isisEvent' = IsisEvent("adj_state_change", a)
    /\ adjacencies[a].adj_state # "ISIS_ADJ_UP"
    /\ adjacencies'[a].adj_state = "ISIS_ADJ_UP"

\* an IPv4 address or a global IPv6 address has just been reported for
\* adjacency a
OtherAddressEnabled(a) == isisEvent' = IsisEvent("adj_ip_enabled_other", a)

\* an IPv6 link-local address has just been reported for adjacency a
Ipv6Enabled(a) == isisEvent' = IsisEvent("adj_ip_enabled", a)

\* the step added no End.X SID and removed none, and asked for no install
NoEndXSidAdded ==
    /\ srv6db'.srv6_endx_sids = srv6db.srv6_endx_sids
    /\ \A b \in Adjs :
          adjacencies'[b].srv6_endx_sids = adjacencies[b].srv6_endx_sids
    /\ \A k \in 1..Len(isisLog') : isisLog'[k].type # "endx_sid_install"

\* C31: an adjacency state change to UP, an address-enabled event for IPv4 or
\* for global IPv6 addresses, any adjacency event in an area with SRv6
\* disabled, and an IPv6-enabled event in an area with an empty chunk list
\* create no End.X SID, issue no install request and leave the End.X lists
\* of the area and of every adjacency as they were.
C31_NoEndXSidWithoutCause ==
    [][\A a \in Adjs :
        (\/ BecomesUp(a)
         \/ OtherAddressEnabled(a)
         \/ (~srv6db.enabled /\ isisEvent'.type \in AdjEvents /\ isisEvent'.arg = a)
         \/ (Ipv6Enabled(a) /\ srv6db.srv6_locator_chunks = <<>>))
            => NoEndXSidAdded]_vars

\* an adjacency with an End.X SID lost its IPv6 link-local address in an area
\* with SRv6 disabled, and both End.X SIDs of the area are still there
C31_Witness ==
    /\ ~srv6db.enabled
    /\ isisEvent = IsisEvent("adj_ip_disabled", "adj1")
    /\ adjacencies["adj1"].ll_ipv6_count = 0
    /\ Len(adjacencies["adj1"].srv6_endx_sids) = 1
    /\ Len(srv6db.srv6_endx_sids) = 2
    /\ isisLog = <<>>

----------------------------------------------------------------------------
(* zebra: the chunks of a locator whose prefix is configured again *)

\* prefix sub lies within prefix p
SubPrefix(sub, p) ==
    /\ sub.prefixlen >= p.prefixlen
    /\ Covered(sub.addr, p)

\* C32: after any sequence of prefix commands on a locator, every chunk of
\* the locator's chunk list is a sub-prefix of the locator's current prefix.
C32_ChunksWithinLocatorPrefix ==
    \A k \in 1..Len(locator.chunks) :
        SubPrefix(locator.chunks[k].prefix, locator.prefix)

----------------------------------------------------------------------------
(* zebra: the local SID encapsulation of a single-nexthop route *)

\* the action codes of spec 3, by seg6local action
FpmActionCode ==
    [ZEBRA_SEG6_LOCAL_ACTION_END |-> 1, ZEBRA_SEG6_LOCAL_ACTION_END_X |-> 2,
     ZEBRA_SEG6_LOCAL_ACTION_END_T |-> 3, ZEBRA_SEG6_LOCAL_ACTION_END_DX4 |-> 6,
     ZEBRA_SEG6_LOCAL_ACTION_END_DT6 |-> 7, ZEBRA_SEG6_LOCAL_ACTION_END_DT4 |-> 8,
     ZEBRA_SEG6_LOCAL_ACTION_END_DT46 |-> 16, ZEBRA_SEG6_LOCAL_ACTION_UDT4 |-> 100,
     ZEBRA_SEG6_LOCAL_ACTION_UDT6 |-> 101, ZEBRA_SEG6_LOCAL_ACTION_UDT46 |-> 102]

\* the context attribute each action calls for
ContextOf(action) ==
    IF action = "ZEBRA_SEG6_LOCAL_ACTION_END" THEN {}
    ELSE IF action = "ZEBRA_SEG6_LOCAL_ACTION_END_X" THEN {"FPM_SRV6_LOCALSID_NH6"}
    ELSE IF action = "ZEBRA_SEG6_LOCAL_ACTION_END_DX4" THEN {"FPM_SRV6_LOCALSID_NH4"}
    ELSE {"FPM_SRV6_LOCALSID_VRFNAME"}

LengthTypes ==
    {"FPM_SRV6_LOCALSID_BLOCK_LEN", "FPM_SRV6_LOCALSID_NODE_LEN",
     "FPM_SRV6_LOCALSID_FUNC_LEN", "FPM_SRV6_LOCALSID_ARG_LEN"}

\* the attributes of type type among attrs
OfType(attrs, type) == SelectSeq(attrs, LAMBDA a : a.type = type)

\* the attributes that lie inside the nest
Inside(attrs, nest) ==
    SelectSeq(attrs, LAMBDA a : /\ a.at > nest.at
                                /\ a.at + a.rta_len <= nest.at + nest.rta_len)

\* a nexthop that carries a local SID and that the fill step hands to the
\* encoder for RTM_NEWROUTE
LocalSidNexthop(nh) ==
    /\ nh.srv6.present
    /\ nh.srv6.seg6local_action # "ZEBRA_SEG6_LOCAL_ACTION_UNSPEC"
    /\ "ACTIVE" \in nh.flags /\ "RECURSIVE" \notin nh.flags
    /\ (nh.ifindex # 0 \/ nh.type = "NEXTHOP_TYPE_IPV6")

\* result r is a message with the local SID encapsulation of nexthop nh
LocalSidEncoded(r, nh) ==
    LET s6 == nh.srv6
        nests == OfType(r.attrs, "RTA_ENCAP")
        inner == Inside(r.attrs, nests[1])
        one(type) == OfType(inner, type)[1]
    IN /\ r.outcome = "returned" /\ r.ret = r.len /\ r.ret > 0 /\ ~r.dropped
       /\ Len(OfType(r.attrs, "RTA_ENCAP_TYPE")) = 1
       /\ OfType(r.attrs, "RTA_ENCAP_TYPE")[1].data = ToString(102)
       /\ Len(nests) = 1
       /\ {inner[i].type : i \in 1..Len(inner)}
            = LengthTypes \cup {"FPM_SRV6_LOCALSID_ACTION"}
              \cup ContextOf(s6.seg6local_action)
       /\ Len(inner) = 5 + Cardinality(ContextOf(s6.seg6local_action))
       /\ \A t \in LengthTypes : one(t).rta_len = RtaHeaderLen + 1
       /\ one("FPM_SRV6_LOCALSID_BLOCK_LEN").data
            = ToString(s6.seg6local_structure.block_bits_length)
       /\ one("FPM_SRV6_LOCALSID_NODE_LEN").data
            = ToString(s6.seg6local_structure.node_bits_length)
       /\ one("FPM_SRV6_LOCALSID_FUNC_LEN").data
            = ToString(s6.seg6local_structure.function_bits_length)
       /\ one("FPM_SRV6_LOCALSID_ARG_LEN").data
            = ToString(s6.seg6local_structure.argument_bits_length)
       /\ one("FPM_SRV6_LOCALSID_ACTION").data
            = ToString(FpmActionCode[s6.seg6local_action])
       /\ \A t \in ContextOf(s6.seg6local_action) :
            CASE t = "FPM_SRV6_LOCALSID_NH6" -> one(t).data = s6.nh6
              [] t = "FPM_SRV6_LOCALSID_NH4" -> one(t).data = s6.nh4
              [] OTHER -> one(t).rta_len
                            = RtaHeaderLen + VrfNameLen(one(t).data) + 1

\* C33: for a single-nexthop route whose nexthop carries a local SID
\* behavior, encoded into a buffer that holds it, the message contains
\* ENCAP_TYPE = 102 and one nested encap attribute with the four one-byte
\* length attributes, the action code and exactly the context attribute of
\* the action: NH6 for End.X, NH4 for End.DX4, the NUL-terminated VRFNAME for
\* End.T, End.DT4, End.DT6, End.DT46, uDT4, uDT6 and uDT46, none for End; a
\* nexthop with another action is not encoded.
C33_LocalSidEncapsulation ==
    \A k \in 1..Len(fpmResults) :
        (/\ fpmCall.cmd = "RTM_NEWROUTE" /\ fpmCall.re.present
         /\ fpmCall.in_buf_len = 512
         /\ Len(fpmCall.re.nhg) = 1
         /\ LocalSidNexthop(fpmCall.re.nhg[1]))
            => IF fpmCall.re.nhg[1].srv6.seg6local_action \in DOMAIN FpmActionCode
               THEN LocalSidEncoded(fpmResults[k], fpmCall.re.nhg[1])
               ELSE /\ fpmResults[k].outcome = "returned"
                    /\ fpmResults[k].ret = 0

\* the route of spec 8, scenario 5, was encoded: End.DT6 with a VRF name and
\* structure (40, 24, 16, 0)
C33_Witness ==
    /\ Len(fpmResults) = 1
    /\ fpmCall.cmd = "RTM_NEWROUTE" /\ fpmCall.re.present
    /\ fpmCall.in_buf_len = 512
    /\ fpmCall.re.nhg = <<NhLocalSid("ZEBRA_SEG6_LOCAL_ACTION_END_DT6")>>
    /\ \E i \in 1..Len(fpmResults[1].attrs) :
          /\ fpmResults[1].attrs[i].type = "FPM_SRV6_LOCALSID_VRFNAME"
          /\ fpmResults[1].attrs[i].data = "vrf-blue"
    /\ \E i \in 1..Len(fpmResults[1].attrs) :
          /\ fpmResults[1].attrs[i].type = "FPM_SRV6_LOCALSID_ACTION"
          /\ fpmResults[1].attrs[i].data = ToString(7)

----------------------------------------------------------------------------
\* the primary End.X SIDs adjacency a holds
PrimaryEndXSids(a) ==
    {k \in 1..Len(adjacencies[a].srv6_endx_sids) :
       adjacencies[a].srv6_endx_sids[k].type = "ISIS_SRV6_ADJ_NORMAL"}

----------------------------------------------------------------------------
\* the End.X SIDs a list holds
InList(list) == {list[k] : k \in 1..Len(list)}

\* C35: an End.X SID is in the area's End.X SID list exactly when it is in
\* the list of the adjacency it refers back to, after any sequence of
\* adjacency events, locator releases and the end of the area
C35_EndXListsAgree ==
    /\ \A sra \in InList(srv6db.srv6_endx_sids) :
          /\ sra.adj \in Adjs
          /\ sra \in InList(adjacencies[sra.adj].srv6_endx_sids)
    /\ \A a \in Adjs : \A sra \in InList(adjacencies[a].srv6_endx_sids) :
          /\ sra.adj = a
          /\ sra \in InList(srv6db.srv6_endx_sids)
    /\ Len(srv6db.srv6_endx_sids) = Cardinality(InList(srv6db.srv6_endx_sids))
    /\ \A a \in Adjs : Len(adjacencies[a].srv6_endx_sids)
                        = Cardinality(InList(adjacencies[a].srv6_endx_sids))

\* the End.X SIDs of adj1 have just been removed from both lists while adj2
\* keeps its own in both
C35_Witness ==
    /\ isisEvent = IsisEvent("adj_ip_disabled", "adj1")
    /\ isisLog # <<>>
    /\ adjacencies["adj1"].srv6_endx_sids = <<>>
    /\ adjacencies["adj2"].srv6_endx_sids # <<>>
    /\ srv6db.srv6_endx_sids = adjacencies["adj2"].srv6_endx_sids

----------------------------------------------------------------------------
\* the DEL_LOCALSID static_zebra_srv6_sid_del submits for the descriptor the
\* call left, against the same VRF table
WithdrawalOf(r) == static_zebra_srv6_sid_del(r.sid, sidCall.vr, sidCall.ok).out

\* C36: the outgoing interface index of the DEL_LOCALSID of a static SID is
\* the one of the ADD_LOCALSID that installed it, whatever interface and VRF
\* attributes the SID carries, none included
C36_DelCarriesOifOfAdd ==
    \A k \in 1..Len(sidResult.out) :
        sidResult.out[k].type = "ADD" =>
            \A j \in 1..Len(WithdrawalOf(sidResult)) :
                WithdrawalOf(sidResult)[j].oif = sidResult.out[k].oif

----------------------------------------------------------------------------
(* Properties of the nexthop-tracking registry *)

\* the static nexthops registered for a key
RegisteredFor(nhs, key) ==
    {n \in NhNames : nhs[n].nh_registered /\ NhtKey(nhs[n]) = key}

\* the refcount the hash holds for a key, 0 without an entry
RefcountOf(hash, key) == IF key \in DOMAIN hash THEN hash[key].refcount ELSE 0

\* a call that registers a registered nexthop or unregisters an unregistered one
RepeatedCall ==
    \E n \in NhNames :
        /\ nhtEvent' = NhtCall("static_zebra_nht_register", n,
                               IF nexthops[n].nh_registered THEN 1 ELSE 0)
        /\ nexthops'[n].nh_registered = nexthops[n].nh_registered

\* C37: for every key (nexthop prefix, VRF, SAFI) the refcount of its entry
\* is the number of static nexthops with nh_registered set for it, and the
\* key has an entry exactly when that count is positive; registering a
\* registered nexthop or unregistering an unregistered one changes no refcount
C37_RefcountCountsRegisteredNexthops ==
    /\ [](\A key \in NhtKeys :
            /\ RefcountOf(static_nht_hash, key)
                 = Cardinality(RegisteredFor(nexthops, key))
            /\ key \in DOMAIN static_nht_hash
                 <=> RefcountOf(static_nht_hash, key) > 0)
    /\ [](DOMAIN static_nht_hash \subseteq NhtKeys)
    /\ [][RepeatedCall =>
            \A key \in NhtKeys : RefcountOf(static_nht_hash', key)
                                   = RefcountOf(static_nht_hash, key)]_vars

\* both gateways of 192.0.2.1 hold the one entry of their key, and the IPv6
\* gateway has just given up the only reference of its own
C37_Witness ==
    /\ nhtEvent = NhtCall("static_zebra_nht_register", "nh3", 0)
    /\ nhtSent # <<>>
    /\ NhtKey(nexthops["nh3"]) \notin DOMAIN static_nht_hash
    /\ RefcountOf(static_nht_hash, NhtKey(nexthops["nh1"])) = 2
    /\ nexthops["nh1"].nh_registered /\ nexthops["nh2"].nh_registered

\* the messages of one command the call handed over for a key
SentFor(out, cmd, key) == {k \in 1..Len(out) : out[k].cmd = cmd /\ out[k].key = key}

\* C38: per key, once a NEXTHOP_REGISTER went out successfully none follows
\* while the entry stays in the hash; a NEXTHOP_UNREGISTER goes out only when
\* the last reference is dropped and a REGISTER had gone out successfully; so
\* the successful REGISTERs and the UNREGISTERs of a key alternate, beginning
\* with a REGISTER
C38_RegisterUnregisterAlternate ==
    /\ [](\A key \in NhtKeys : nhtHist[key].ok)
    /\ [][\A key \in NhtKeys :
            /\ (/\ key \in DOMAIN static_nht_hash
                /\ static_nht_hash[key].registered
                /\ key \in DOMAIN static_nht_hash')
                  => SentFor(nhtSent', "ZEBRA_NEXTHOP_REGISTER", key) = {}
            /\ SentFor(nhtSent', "ZEBRA_NEXTHOP_UNREGISTER", key) # {}
                  => /\ key \in DOMAIN static_nht_hash
                     /\ static_nht_hash[key].registered
                     /\ static_nht_hash[key].refcount = 1
                     /\ key \notin DOMAIN static_nht_hash']_vars

\* the second gateway of 192.0.2.1 has just dropped the last reference of a
\* key that had been registered with zebra, and the UNREGISTER went out
C38_Witness ==
    /\ nhtEvent = NhtCall("static_zebra_nht_register", "nh2", 0)
    /\ nhtSent = <<Rnh("ZEBRA_NEXTHOP_UNREGISTER", NhtKey(nexthops["nh2"]), TRUE)>>
    /\ nhtHist[NhtKey(nexthops["nh2"])] = [last |-> "UNREGISTER", ok |-> TRUE]
    /\ ~nexthops["nh1"].nh_registered

----------------------------------------------------------------------------
\* isis_srv6_locator_unset has just run
LocatorUnsetRan == isisEvent'.type = "locator_unset"

\* C39: isis_srv6_locator_unset returns an error and changes nothing (chunk
\* list, SID list, End.X lists, locator name; no uninstall asked of zebra)
\* when the locator name is empty or the release of the chunk fails; when it
\* succeeds the chunk list, the SID list and the End.X lists are empty and
\* the locator name is cleared
C39_LocatorUnsetAllOrNothing ==
    [][LocatorUnsetRan =>
          /\ (srv6db.srv6_locator_name = NoName \/ isisEvent'.arg = "-1")
                => /\ isisEvent'.arg = "-1"
                   /\ srv6db' = srv6db
                   /\ adjacencies' = adjacencies
                   /\ isisLog' = <<>>
          /\ isisEvent'.arg = "0"
                => /\ srv6db.srv6_locator_name # NoName
                   /\ srv6db'.srv6_locator_chunks = <<>>
                   /\ srv6db'.srv6_sids = <<>>
                   /\ srv6db'.srv6_endx_sids = <<>>
                   /\ \A a \in Adjs : adjacencies'[a].srv6_endx_sids = <<>>
                   /\ srv6db'.srv6_locator_name = NoName]_vars

\* a locator with a chunk, a SID and an End.X SID has just been released:
\* each was uninstalled or freed, and nothing is left
C39_Witness ==
    /\ isisEvent = IsisEvent("locator_unset", "0")
    /\ \E k \in 1..Len(isisLog) : isisLog[k].type = "end_sid_uninstall"
    /\ \E k \in 1..Len(isisLog) : isisLog[k].type = "endx_sid_uninstall"
    /\ srv6db.srv6_locator_chunks = <<>> /\ srv6db.srv6_sids = <<>>
    /\ srv6db.srv6_endx_sids = <<>> /\ srv6db.srv6_locator_name = NoName

----------------------------------------------------------------------------
\* 2^func_len - 1 in 16-bit parts, the low one first
AllOnesOfLength(func_len) ==
    [k \in 1..4 |->
        IF func_len >= 16 * k THEN 65535
        ELSE IF func_len <= 16 * (k - 1) THEN 0
        ELSE (2 ^ (func_len - (16 * (k - 1)))) - 1]

\* C40: for every function length the locator configuration takes (func-bits
\* 16 to 64) the bound "(1 << function_bits_length) - 1" of the automatic
\* search, computed in 32 bits, is 2^func_len - 1 with no overflow or
\* wrap-around, and the search, with a free index at hand, allocates a SID
C40_IndexMaxIsExact ==
    isisResult.fn = "isis_srv6_sid_alloc(func-bits)" =>
        /\ isisResult.index_max \o <<0, 0>> = AllOnesOfLength(isisCall.func_len)
        /\ isisResult.sid # NoSid

====
